---- MODULE Spec2Model ----
(***************************************************************************)
(* Model of nmtop (maxileith/dhbw_nmtop): the collector threads, their     *)
(* mpsc channels, the delta computations (CPU utilization, per-thread CPU  *)
(* usage, network sampler) and the render loop.                            *)
(*                                                                         *)
(* The module holds several specifications over one set of variables, one  *)
(* per part of the program; a specification leaves the variables of the    *)
(* other parts at their initial value.                                     *)
(*   SpecCalc    calculate_cpu_utilization on pairs of /proc/stat rows      *)
(*   SpecProc    the process collector: ProcessList::update and the map    *)
(*               of CPU times per tid                                      *)
(*   SpecCpu     the CPU collector: update_current_cpu_utilization and     *)
(*               its queue of previous rows                                *)
(*   SpecNetIo   get_network_io on lists of interface rows                 *)
(*   SpecNet     the network collector, NetworkWidget::update and draw     *)
(*   SpecMail    the main loop's try_recv calls against the collectors'    *)
(*               sends                                                     *)
(*   SpecWidget  ProcessesWidget: update, sort, filter, handle_input and   *)
(*               the kill and renice commands it dispatches                *)
(*   SpecInput   the keyboard thread of InputHandler and its 150 ms window *)
(*   SpecDisk    the disk collector: get_disks_usage on the outputs of df  *)
(*   SpecStat    Process::update_stat on stat lines with any command name  *)
(*   SpecHist    CpuWidget::update: the utilization histories               *)
(*   SpecNav     the main loop's navigation: AppLogic and the key handling  *)
(***************************************************************************)
EXTENDS Integers, Sequences, FiniteSets, TLC

VARIABLES
    debug_assertions,   \* build profile: TRUE = overflow checks on (debug), FALSE = release
    calc_previous,      \* cpu.rs: `previous` argument of calculate_cpu_utilization
    calc_current,       \* cpu.rs: `current` argument of calculate_cpu_utilization
    calc_out,           \* outcome of the last call of calculate_cpu_utilization
    cpu_times,          \* processes.rs: ProcessList.cpu_times, tid -> CPUTime (or NoEntry)
    processes,          \* processes.rs: ProcessList.processes
    proc_pc,            \* position of the process collector thread
    proc_sent,          \* the snapshot handed to the last tx.send of the process collector
    proc_sends,         \* number of tx.send calls of the process collector so far
    proc_seen,          \* the threads enumerated so far in this cycle, with what happened to each
    millis,             \* the wall clock read by util::get_millis
    proc_cycles,        \* enumeration cycles started so far
    stats,              \* cpu.rs: the VecDeque<ProcStatRow> of the CPU collector
    first_iteration,    \* cpu.rs: first_iteration of the CPU collector
    cpu_pc,             \* position of the CPU collector thread
    cpu_sent,           \* the Vec<CpuUtilization> handed to the last tx.send of the CPU collector
    cpu_ran_first,      \* whether the last call of update_current_cpu_utilization ran with first_iteration
    cpu_cycles,         \* iterations of the CPU collector so far
    cpu_reads,          \* the last two iterations: was /proc/stat read to its end, and its cpu names
    net_file,           \* the interface rows of /proc/net/dev given to get_network_io
    net_io_out,         \* outcome of the last call of get_network_io
    net_chan,           \* the mpsc channel of the network collector
    current_info,       \* network.rs: NetworkWidget.current_info (main.rs: network_info)
    last_info,          \* network.rs: NetworkWidget.last_info (main.rs: last_network_info)
    net_drawn,          \* outcome of the last NetworkWidget::draw
    net_cycles,         \* iterations of the network collector so far
    net_failed,         \* the last get_network_io of the collector returned Err
    chans,              \* main.rs: the five mpsc channels, one per collector
    published,          \* snapshots sent so far, over all collectors
    held,               \* main.rs: mem_info, disk_info, cpu_stats, processes_info, network_info
    last_network_info,  \* main.rs: last_network_info
    loop_pc,            \* position of the main loop within one iteration
    last_read,          \* the last try_recv: its channel, what was pending, what it returned
    pw,                 \* processes.rs: the ProcessesWidget
    pw_pc,              \* "running", or the place where the widget's thread panicked
    pw_events,          \* keys and updates handled by the widget so far
    pw_filter_input,    \* the buffer that was submitted as the filter last set
    pw_last,            \* the last k or Enter: mode, buffer and selected row before it, the commands it spawned
    in_clock,           \* util.rs: milliseconds since the input thread started
    previous_time,      \* util.rs: previous_time of the input thread
    key_chan,           \* util.rs: the channel from the input thread to InputHandler::next
    in_sent,            \* every key event sent so far, with the time it was read at
    in_dropped,         \* the key events read and not sent
    in_received,        \* the key events InputHandler::next has returned
    in_read,            \* key events read from stdin so far
    disk_chan,          \* the mpsc channel of the disk collector
    disk_pc,            \* "running", or the place where the disk collector panicked
    disk_cycles,        \* iterations of the disk collector so far
    disk_df,            \* what the last run of df gave
    disk_info,          \* main.rs: disk_info
    stat_comm,          \* the command name in the stat line read by update_stat
    stat_fields,        \* the fields of that line which update_stat reads
    stat_out,           \* outcome of the last call of update_stat
    cpu_values,         \* cpu.rs: CpuWidget.cpu_values, the aggregate history
    core_values,        \* cpu.rs: CpuWidget.core_values, one history per core row
    hist_arrived,       \* every value in arrival order, dropped ones included
    hist_updates,       \* updates of the history so far
    app_state,          \* main.rs: app.state
    current_widget,     \* main.rs: app.current_widget
    nav_running,        \* main.rs: the main loop has not ended
    nav_event,          \* the event the last iteration handled
    nav_count           \* iterations of the main loop so far

calcVars == <<calc_previous, calc_current, calc_out>>
procVars == <<cpu_times, processes, proc_pc, proc_sent, proc_sends, proc_seen, millis,
             proc_cycles>>
cpuVars == <<stats, first_iteration, cpu_pc, cpu_sent, cpu_ran_first, cpu_cycles, cpu_reads>>
netIoVars == <<net_file, net_io_out>>
netVars == <<net_chan, current_info, last_info, net_drawn, net_cycles, net_failed>>
mailVars == <<chans, published, held, last_network_info, loop_pc, last_read>>
widgetVars == <<pw, pw_pc, pw_events, pw_filter_input, pw_last>>
inputVars == <<in_clock, previous_time, key_chan, in_sent, in_dropped, in_received, in_read>>
diskVars == <<disk_chan, disk_pc, disk_cycles, disk_df, disk_info>>
statVars == <<stat_comm, stat_fields, stat_out>>
histVars == <<cpu_values, core_values, hist_arrived, hist_updates>>
navVars == <<app_state, current_widget, nav_running, nav_event, nav_count>>
vars == <<debug_assertions, calcVars, procVars, cpuVars, netIoVars, netVars, mailVars,
          widgetVars, inputVars, diskVars,
          statVars,
          histVars,
          navVars>>

\* what each part of the program leaves alone
calcOthers == <<procVars, cpuVars, netIoVars, netVars, mailVars, widgetVars, inputVars, diskVars,
               statVars, histVars, navVars>>
procOthers == <<calcVars, cpuVars, netIoVars, netVars, mailVars, widgetVars, inputVars, diskVars,
               statVars, histVars, navVars>>
cpuOthers == <<calcVars, procVars, netIoVars, netVars, mailVars, widgetVars, inputVars, diskVars,
               statVars, histVars, navVars>>
netIoOthers == <<calcVars, procVars, cpuVars, netVars, mailVars, widgetVars, inputVars, diskVars,
               statVars, histVars, navVars>>
netOthers == <<calcVars, procVars, cpuVars, netIoVars, mailVars, widgetVars, inputVars, diskVars,
               statVars, histVars, navVars>>
mailOthers == <<calcVars, procVars, cpuVars, netIoVars, netVars, widgetVars, inputVars, diskVars,
               statVars, histVars, navVars>>
widgetOthers == <<calcVars, procVars, cpuVars, netIoVars, netVars, mailVars, inputVars, diskVars,
               statVars, histVars, navVars>>
inputOthers == <<calcVars, procVars, cpuVars, netIoVars, netVars, mailVars, widgetVars, diskVars,
               statVars, histVars, navVars>>
diskOthers == <<calcVars, procVars, cpuVars, netIoVars, netVars, mailVars, widgetVars,
               inputVars, statVars, histVars, navVars>>
statOthers == <<calcVars, procVars, cpuVars, netIoVars, netVars, mailVars, widgetVars,
               inputVars, diskVars, histVars, navVars>>
histOthers == <<calcVars, procVars, cpuVars, netIoVars, netVars, mailVars, widgetVars,
               inputVars, diskVars, statVars, navVars>>
navOthers == <<calcVars, procVars, cpuVars, netIoVars, netVars, mailVars, widgetVars,
               inputVars, diskVars, statVars, histVars>>

(***************************************************************************)
(* Machine integers.  2^32 and 2^64 are no TLC integers, so a machine      *)
(* integer is written  hi * 2^w + lo  with a small lo: [hi |-> 0, lo |-> 5]*)
(* is 5 and [hi |-> 1, lo |-> -1] is 2^w - 1.  A value is in the range of  *)
(* the unsigned type iff it is 0*2^w + lo with lo >= 0 or 1*2^w + lo with  *)
(* lo < 0.  Sums and differences are exact in this form; reducing modulo   *)
(* 2^w is choosing hi by the sign of lo.                                   *)
(***************************************************************************)
Wide(h, l) == [hi |-> h, lo |-> l]

WZero == Wide(0, 0)

WAdd(a, b) == Wide(a.hi + b.hi, a.lo + b.lo)

WSub(a, b) == Wide(a.hi - b.hi, a.lo - b.lo)

WScale(k, a) == Wide(k * a.hi, k * a.lo)

\* the product of two such numbers, as the coefficients of 2^2w, 2^w and 1
WMul(a, b) == <<a.hi * b.hi, a.hi * b.lo + a.lo * b.hi, a.lo * b.lo>>

InRange(x) == (x.hi = 0 /\ x.lo >= 0) \/ (x.hi = 1 /\ x.lo < 0)

WrapAround(x) == IF x.lo >= 0 THEN Wide(0, x.lo) ELSE Wide(1, x.lo)

\* Rust's +, - on unsigned integers: the exact result when it fits; otherwise a
\* panic with overflow checks on (debug profile) and the wrapped value without
\* them (release profile).
Checked(raw, debug) ==
    IF InRange(raw) THEN [panic |-> FALSE, val |-> raw]
    ELSE IF debug THEN [panic |-> TRUE, val |-> WZero]
    ELSE [panic |-> FALSE, val |-> WrapAround(raw)]

\* largest value a u32 / usize holds
UMax == Wide(1, -1)

(***************************************************************************)
(* cpu.rs: ProcStatRow, get_total_time, calculate_cpu_utilization          *)
(***************************************************************************)
\* bound: the small counter values a row's fields are drawn from
MaxCount == 2

SmallCounts == {Wide(0, n) : n \in 0..MaxCount}

ProcStatRow(name, user, nice, system, idle, iowait, irq, softirq) ==
    [cpu_name |-> name,
     normal_proc_user_mode |-> user,
     nice_proc_user_mode |-> nice,
     system_proc_kernel_mode |-> system,
     idle |-> idle,
     iowait |-> iowait,
     irq |-> irq,
     softirq |-> softirq]

\* the two rows of the documented example: totals 950 and 1000, idle 800 and 830
ExamplePrevious ==
    ProcStatRow("cpu", Wide(0, 100), WZero, Wide(0, 50), Wide(0, 800), WZero, WZero, WZero)

ExampleCurrent ==
    ProcStatRow("cpu", Wide(0, 110), WZero, Wide(0, 60), Wide(0, 830), WZero, WZero, WZero)

\* rows calculate_cpu_utilization is applied to: every field is a u32 that
\* /proc/stat can show; idle also takes the largest u32
CalcRows ==
    {ProcStatRow("cpu", u, WZero, s, i, WZero, WZero, q) :
        u \in SmallCounts, s \in {WZero, Wide(0, 1)},
        i \in SmallCounts \cup {UMax}, q \in {WZero, Wide(0, 1)}}
    \cup {ExamplePrevious, ExampleCurrent}

\* the seven fields in the order get_total_time adds them
TimeFields(row) ==
    <<row.normal_proc_user_mode, row.nice_proc_user_mode, row.system_proc_kernel_mode,
      row.idle, row.iowait, row.irq, row.softirq>>

RECURSIVE SumChecked(_, _, _)
\* acc + fields[1] + fields[2] + ... in u32, left to right
SumChecked(acc, fields, debug) ==
    IF acc.panic \/ fields = <<>> THEN acc
    ELSE SumChecked(Checked(WAdd(acc.val, Head(fields)), debug), Tail(fields), debug)

get_total_time(row, debug) ==
    LET f == TimeFields(row)
    IN  SumChecked([panic |-> FALSE, val |-> Head(f)], Tail(f), debug)

\* f64 outcomes of 100.0 * (1.0 - idle_delta / total_delta): a finite value is
\* the exact fraction num / den (rounding is not modelled)
Panicked == [kind |-> "panic", num |-> WZero, den |-> WZero]

NaN == [kind |-> "nan", num |-> WZero, den |-> WZero]

NegInf == [kind |-> "neg_inf", num |-> WZero, den |-> WZero]

PosInf == [kind |-> "pos_inf", num |-> WZero, den |-> WZero]

Finite(n, d) == [kind |-> "finite", num |-> n, den |-> d]

NotComputed == [kind |-> "none", num |-> WZero, den |-> WZero]

calculate_cpu_utilization(previous, current, debug) ==
    LET previous_total_elapsed == get_total_time(previous, debug)
        current_total_elapsed == get_total_time(current, debug)
        total_delta == Checked(WSub(current_total_elapsed.val, previous_total_elapsed.val), debug)
        idle_delta == Checked(WSub(current.idle, previous.idle), debug)
    IN  IF previous_total_elapsed.panic \/ current_total_elapsed.panic
           \/ total_delta.panic \/ idle_delta.panic
        THEN Panicked
        ELSE IF total_delta.val = WZero
             THEN IF idle_delta.val = WZero THEN NaN ELSE NegInf
             ELSE Finite(WScale(100, WSub(total_delta.val, idle_delta.val)), total_delta.val)

\* the call of calculate_cpu_utilization on the pair held
Calculate ==
    /\ calc_out = NotComputed
    /\ calc_out' = calculate_cpu_utilization(calc_previous, calc_current, debug_assertions)
    /\ UNCHANGED <<debug_assertions, calc_previous, calc_current, calcOthers>>

\* the next cycle: the current row becomes the previous one, a new row is read
NextSample ==
    /\ calc_out # NotComputed
    /\ \E row \in CalcRows :
          /\ calc_previous' = calc_current
          /\ calc_current' = row
    /\ calc_out' = NotComputed
    /\ UNCHANGED <<debug_assertions, calcOthers>>

CalcInit ==
    /\ calc_previous \in CalcRows
    /\ calc_current \in CalcRows
    /\ calc_out = NotComputed

CalcIdle ==
    /\ calc_previous = ExamplePrevious
    /\ calc_current = ExampleCurrent
    /\ calc_out = NotComputed

(***************************************************************************)
(* processes.rs: CPUTime, ProcessList::update, Process::update,            *)
(* update_cpu_usage, init_data_collection_thread                           *)
(***************************************************************************)
\* the (pid, tid) pairs /proc can list: thread group 100 with its leader 100
\* and a worker 101
Threads == {<<100, 100>>, <<100, 101>>}

Tids == {t[2] : t \in Threads}

\* utime + stime values a stat file can show
TickVals == {0, 50, 175}

\* sleep between two enumeration cycles, in ms
DUR == 2500

\* the wall clock (ms since the epoch) when the collector starts
StartMillis == 5000

\* bound: enumeration cycles modelled
MaxCycles == 2

\* HashMap<usize, CPUTime>: no entry, or the CPUTime stored for the tid
NoEntry == [present |-> FALSE, exec_time |-> 0, millis |-> 0]

CPUTime(exec_time, ms) == [present |-> TRUE, exec_time |-> exec_time, millis |-> ms]

\* f32 outcome of delta_cpu_time / delta_real_time with
\* delta_real_time = delta_millis / 1000.0: the exact fraction (rounding is not
\* modelled); x / 0.0 is +infinity for x > 0 and NaN for x = 0
DivideBySeconds(delta_cpu_time, delta_millis) ==
    IF delta_millis = WZero
    THEN IF delta_cpu_time = WZero THEN NaN ELSE PosInf
    ELSE Finite(WScale(1000, delta_cpu_time), delta_millis)

\* update_cpu_usage with the quotient multiplied by 100 once more, as if ticks
\* were not already hundredths of a second
update_cpu_usage_times_100(cpu_time, entry, now, debug) ==
    LET old_cpu_times == IF entry.present THEN entry ELSE CPUTime(0, 0)
        delta_cpu_time == Checked(WSub(Wide(0, cpu_time), Wide(0, old_cpu_times.exec_time)), debug)
        delta_millis == Checked(WSub(Wide(0, now), Wide(0, old_cpu_times.millis)), debug)
    IN  IF delta_cpu_time.panic
        THEN [site |-> "cpu_time_sub", cpu_usage |-> Panicked, stored |-> entry]
        ELSE IF delta_millis.panic
        THEN [site |-> "millis_sub", cpu_usage |-> Panicked, stored |-> entry]
        ELSE [site |-> "none",
              cpu_usage |-> DivideBySeconds(WScale(100, delta_cpu_time.val), delta_millis.val),
              stored |-> CPUTime(cpu_time, now)]

\* a variant of update_cpu_usage that overwrites nothing: a tid that has an
\* entry keeps it
update_cpu_usage_keeping_entry(cpu_time, entry, now, debug) ==
    LET old_cpu_times == IF entry.present THEN entry ELSE CPUTime(0, 0)
        delta_cpu_time == Checked(WSub(Wide(0, cpu_time), Wide(0, old_cpu_times.exec_time)), debug)
        delta_millis == Checked(WSub(Wide(0, now), Wide(0, old_cpu_times.millis)), debug)
    IN  IF delta_cpu_time.panic
        THEN [site |-> "cpu_time_sub", cpu_usage |-> Panicked, stored |-> entry]
        ELSE IF delta_millis.panic
        THEN [site |-> "millis_sub", cpu_usage |-> Panicked, stored |-> entry]
        ELSE [site |-> "none",
              cpu_usage |-> DivideBySeconds(delta_cpu_time.val, delta_millis.val),
              stored |-> IF entry.present THEN entry ELSE CPUTime(cpu_time, now)]

\* Process::update_cpu_usage for a thread with `cpu_time` ticks whose map entry
\* is `entry`, at wall clock `now`: the panic site (or "none"), the cpu_usage
\* assigned and the CPUTime stored
update_cpu_usage(cpu_time, entry, now, debug) ==
    LET old_cpu_times == IF entry.present THEN entry ELSE CPUTime(0, 0)
        delta_cpu_time == Checked(WSub(Wide(0, cpu_time), Wide(0, old_cpu_times.exec_time)), debug)
        delta_millis == Checked(WSub(Wide(0, now), Wide(0, old_cpu_times.millis)), debug)
    IN  IF delta_cpu_time.panic
        THEN [site |-> "cpu_time_sub", cpu_usage |-> Panicked, stored |-> entry]
        ELSE IF delta_millis.panic
        THEN [site |-> "millis_sub", cpu_usage |-> Panicked, stored |-> entry]
        ELSE [site |-> "none",
              cpu_usage |-> DivideBySeconds(delta_cpu_time.val, delta_millis.val),
              stored |-> CPUTime(cpu_time, now)]

\* what happens to a listed thread while Process::update reads its files
Fates == {"alive", "gone_before_user", "gone_before_stat", "gone_during_stat"}

\* Process::update for thread (pid, tid): update_status and update_command
\* return on an open failure; update_user slices the output of `stat -c '%U`
\* as response[1..len - 1], which panics on the empty output of a vanished
\* directory; update_stat returns on an open failure (cpu_time stays 0) and
\* indexes tmp[1] of the split line, which panics on an empty line;
\* update_cpu_usage comes last.  `prior` and `at` record the map entry and the
\* clock the usage was computed from.
ProcessUpdate(pid, tid, fate, ticks, entry, now, debug) ==
    LET cpu_time == IF fate = "alive" THEN ticks ELSE 0
        usage == update_cpu_usage(cpu_time, entry, now, debug)
        site == IF fate = "gone_before_user" THEN "user_slice"
                ELSE IF fate = "gone_during_stat" THEN "stat_index"
                ELSE usage.site
    IN  [site |-> site,
         stored |-> IF site = "none" THEN usage.stored ELSE entry,
         process |-> [pid |-> pid, tid |-> tid, cpu_time |-> cpu_time,
                      cpu_usage |-> usage.cpu_usage, prior |-> entry, at |-> now]]

Listed(tid) == \E i \in 1..Len(processes) : processes[i].tid = tid

\* a variant of the first statement of ProcessList::update that keeps the
\* records of the cycle before
carry_over_processes(previous) == previous

\* self.processes = Default::default()
reset_processes(previous) == <<>>

\* the thread was enumerated earlier in this cycle
Enumerated(tid) == \E k \in 1..Len(proc_seen) : proc_seen[k].tid = tid

\* ProcessList::update, start: the list is emptied and /proc is opened; when
\* that fails update returns at once
BeginCycle ==
    /\ proc_pc = "idle"
    /\ proc_cycles < MaxCycles
    /\ proc_cycles' = proc_cycles + 1
    /\ processes' = reset_processes(processes)
    /\ proc_seen' = <<>>
    /\ \E root_ok \in BOOLEAN :
          proc_pc' = IF root_ok THEN "scanning" ELSE "scanned"
    /\ UNCHANGED <<debug_assertions, cpu_times, proc_sent, proc_sends, millis, procOthers>>

\* ProcessList::update, one directory entry: Process::new(pid, tid, cpu_times)
\* is pushed; a panic ends the collector thread
Observe ==
    /\ proc_pc = "scanning"
    /\ \E t \in Threads, fate \in Fates, ticks \in TickVals :
          LET r == ProcessUpdate(t[1], t[2], fate, ticks, cpu_times[t[2]], millis,
                                 debug_assertions)
          IN  /\ ~Enumerated(t[2])
              /\ proc_seen' = Append(proc_seen, [pid |-> t[1], tid |-> t[2], fate |-> fate])
              /\ IF r.site = "none"
                 THEN /\ processes' = Append(processes, r.process)
                      /\ cpu_times' = [cpu_times EXCEPT ![t[2]] = r.stored]
                      /\ proc_pc' = "scanning"
                 ELSE /\ proc_pc' = r.site
                      /\ UNCHANGED <<processes, cpu_times>>
    /\ UNCHANGED <<debug_assertions, proc_sent, proc_sends, millis, proc_cycles, procOthers>>

\* init_data_collection_thread, after pl.update(): tx.send(pl.clone()), then
\* thread::sleep(dur).  The channel itself is modelled with the render loop.
Publish ==
    /\ proc_pc \in {"scanning", "scanned"}
    /\ proc_sent' = processes
    /\ proc_sends' = proc_sends + 1
    /\ millis' = millis + DUR
    /\ proc_pc' = "idle"
    /\ UNCHANGED <<debug_assertions, cpu_times, processes, proc_seen, proc_cycles, procOthers>>

\* the system clock is set back (SystemTime is not monotonic)
ClockSetBack ==
    /\ proc_pc = "idle"
    /\ \E d \in {DUR, 2 * DUR} :
          /\ millis >= d
          /\ millis' = millis - d
    /\ UNCHANGED <<debug_assertions, cpu_times, processes, proc_pc, proc_sent,
                   proc_sends, proc_seen, proc_cycles, procOthers>>

ProcInit ==
    /\ cpu_times = [t \in Tids |-> NoEntry]
    /\ processes = <<>>
    /\ proc_pc = "idle"
    /\ proc_sent = <<>>
    /\ proc_sends = 0
    /\ proc_seen = <<>>
    /\ millis = StartMillis
    /\ proc_cycles = 0

ProcIdle == ProcInit

(***************************************************************************)
(* cpu.rs: update_current_cpu_utilization, init_data_collection_thread     *)
(***************************************************************************)
\* bound: iterations of the CPU collector modelled
MaxCpuCycles == 3

\* the cpu lines /proc/stat can hold, in file order: the aggregate line and
\* the lines of the cores that are online
CpuLineNames ==
    {<<"cpu", "cpu0", "cpu1">>, <<"cpu", "cpu0">>, <<"cpu", "cpu1">>}

\* counters of one cpu line: n ticks of user time and n of idle time, the other
\* five fields 0
CpuLineRows(name) ==
    {ProcStatRow(name, Wide(0, n), WZero, WZero, Wide(0, n), WZero, WZero, WZero) :
        n \in 0..1}

\* the cpu lines of one read of /proc/stat
CpuFiles ==
    UNION {{f \in [1..Len(names) -> UNION {CpuLineRows(names[k]) : k \in 1..Len(names)}] :
               \A k \in 1..Len(names) : f[k].cpu_name = names[k]} :
           names \in CpuLineNames}

\* CpuUtilization; previous_name records the name of the row the utilization
\* was computed against (the struct keeps cpu_name and utilization only)
CpuUtilization(name, utilization, previous_name) ==
    [cpu_name |-> name, utilization |-> utilization, previous_name |-> previous_name]

RECURSIVE ReadCpuLines(_, _, _, _, _)
\* the loop over the lines of update_current_cpu_utilization: `lines` are the
\* cpu rows still to come; on the first iteration a row is only pushed;
\* afterwards the front of the queue is popped (none left: break) and paired
\* with the row, whatever its name; then the row is pushed
ReadCpuLines(lines, queue, result, first, debug) ==
    IF lines = <<>> THEN [panic |-> FALSE, stats |-> queue, result |-> result]
    ELSE LET current_stat == Head(lines)
         IN  IF first
             THEN ReadCpuLines(Tail(lines), Append(queue, current_stat), result, first, debug)
             ELSE IF queue = <<>>
             THEN [panic |-> FALSE, stats |-> queue, result |-> result]
             ELSE LET previous_stat == Head(queue)
                      utilization == calculate_cpu_utilization(previous_stat, current_stat, debug)
                  IN  IF utilization.kind = "panic"
                      THEN [panic |-> TRUE, stats |-> Tail(queue), result |-> result]
                      ELSE ReadCpuLines(Tail(lines), Append(Tail(queue), current_stat),
                                        Append(result, CpuUtilization(current_stat.cpu_name,
                                                   utilization, previous_stat.cpu_name)),
                                        first, debug)

\* update_current_cpu_utilization: `opened` is whether /proc/stat could be
\* opened, `file` its cpu rows and `readable` how many lines are read before
\* a read error ends the loop
update_current_cpu_utilization(queue, first, opened, file, readable, debug) ==
    IF ~opened THEN [panic |-> FALSE, stats |-> queue, result |-> <<>>]
    ELSE ReadCpuLines(SubSeq(file, 1, readable), queue, <<>>, first, debug)

\* no iteration yet
NoRead == [complete |-> FALSE, names |-> <<>>]

\* what an iteration read: the file was opened and read to its last line, and
\* the names of its cpu lines
ReadOf(opened, file, readable) ==
    [complete |-> opened /\ readable = Len(file),
     names |-> [k \in 1..Len(file) |-> file[k].cpu_name]]

\* one iteration of the collector loop: update_current_cpu_utilization,
\* tx.send(result), sleep, first_iteration = false
CpuCycle ==
    /\ cpu_pc = "running"
    /\ cpu_cycles < MaxCpuCycles
    /\ \E opened \in BOOLEAN, file \in CpuFiles :
        \E readable \in 0..Len(file) :
          LET r == update_current_cpu_utilization(stats, first_iteration, opened, file,
                                                  readable, debug_assertions)
          IN  /\ stats' = r.stats
              /\ cpu_ran_first' = first_iteration
              /\ cpu_reads' = <<cpu_reads[2], ReadOf(opened, file, readable)>>
              /\ IF r.panic
                 THEN /\ cpu_pc' = "panicked"
                      /\ UNCHANGED <<cpu_sent, first_iteration>>
                 ELSE /\ cpu_pc' = "running"
                      /\ cpu_sent' = r.result
                      /\ first_iteration' = FALSE
    /\ cpu_cycles' = cpu_cycles + 1
    /\ UNCHANGED <<debug_assertions, cpuOthers>>

CpuInit ==
    /\ stats = <<>>
    /\ first_iteration = TRUE
    /\ cpu_pc = "running"
    /\ cpu_sent = <<>>
    /\ cpu_ran_first = FALSE
    /\ cpu_cycles = 0
    /\ cpu_reads = <<NoRead, NoRead>>

CpuIdle == CpuInit

(***************************************************************************)
(* network.rs: NetworkInfo, get_network_io, init_data_collection_thread,   *)
(* NetworkWidget::update, NetworkWidget::draw                              *)
(***************************************************************************)
\* bound: iterations of the network collector modelled
MaxNetCycles == 2

NetInterfaces == {"lo", "eth0", "wlan0"}

RxVals == {0, 100, 500}

TxVals == {0, 70}

\* NetworkInfo: the interface and the two byte counters; the packet, error and
\* drop counters are copied the same way and no claim reads them
NetworkInfo(interface, rec_bytes, send_bytes) ==
    [interface |-> interface, rec_bytes |-> rec_bytes, send_bytes |-> send_bytes]

\* Default::default()
DefaultNetworkInfo == NetworkInfo("", 0, 0)

NetRows == {NetworkInfo(n, rx, tx) : n \in NetInterfaces, rx \in RxVals, tx \in TxVals}

\* the interface rows of /proc/net/dev below its two header lines: one row per
\* interface, the loopback interface among them, in any order
NetFiles ==
    UNION {{f \in [1..n -> NetRows] :
               /\ \A j, k \in 1..n : j # k => f[j].interface # f[k].interface
               /\ \E k \in 1..n : f[k].interface = "lo"} :
           n \in 1..Cardinality(NetInterfaces)}

RECURSIVE MostReceived(_, _)
\* the loop of get_network_io: a row replaces network_info when its rec_bytes
\* is greater than the rec_bytes held
MostReceived(rows, network_info) ==
    IF rows = <<>> THEN network_info
    ELSE MostReceived(Tail(rows),
                      IF Head(rows).rec_bytes > network_info.rec_bytes
                      THEN Head(rows) ELSE network_info)

\* get_network_io on the interface rows `rows`: the two header lines are
\* skipped, then one more line ("filter / skip local network activity"),
\* whichever interface it holds
get_network_io(rows) ==
    MostReceived(IF rows = <<>> THEN <<>> ELSE Tail(rows), DefaultNetworkInfo)

\* the call of get_network_io on the file held
NetSample ==
    /\ net_io_out = [done |-> FALSE, info |-> DefaultNetworkInfo]
    /\ net_io_out' = [done |-> TRUE, info |-> get_network_io(net_file)]
    /\ UNCHANGED <<debug_assertions, net_file, netIoOthers>>

NetIoInit ==
    /\ net_file \in NetFiles
    /\ net_io_out = [done |-> FALSE, info |-> DefaultNetworkInfo]

NetIoIdle ==
    /\ net_file = <<NetworkInfo("lo", 0, 0)>>
    /\ net_io_out = [done |-> FALSE, info |-> DefaultNetworkInfo]

\* what get_network_io can return
NetSamples == {get_network_io(f) : f \in NetFiles}

\* one iteration of the collector loop: get_network_io, a default NetworkInfo
\* on an error, tx.send, sleep
NetCollect ==
    /\ net_cycles < MaxNetCycles
    /\ net_cycles' = net_cycles + 1
    /\ \E failed \in BOOLEAN :
          /\ net_failed' = failed
          /\ \E m \in IF failed THEN {DefaultNetworkInfo} ELSE NetSamples :
                net_chan' = Append(net_chan, m)
    /\ UNCHANGED <<debug_assertions, current_info, last_info, net_drawn, netOthers>>

\* NetworkWidget::update (main.rs: the try_recv on network_dc_thread)
NetUpdate ==
    /\ IF net_chan # <<>>
       THEN /\ last_info' = current_info
            /\ current_info' = Head(net_chan)
            /\ net_chan' = Tail(net_chan)
       ELSE UNCHANGED <<last_info, current_info, net_chan>>
    /\ net_drawn' = [kind |-> "none", receiving |-> WZero, sending |-> WZero]
    /\ UNCHANGED <<debug_assertions, net_cycles, net_failed, netOthers>>

\* NetworkWidget::draw (main.rs: draw_networkinfo): nothing is drawn when the
\* last rec_bytes exceed the current ones; otherwise both rates are
\* (current - last) * 2 in usize
draw_rates(last, current, debug) ==
    IF last.rec_bytes > current.rec_bytes
    THEN [kind |-> "skipped", receiving |-> WZero, sending |-> WZero]
    ELSE LET rec_delta == Checked(WSub(Wide(0, current.rec_bytes), Wide(0, last.rec_bytes)), debug)
             receiving == Checked(WScale(2, rec_delta.val), debug)
             send_delta == Checked(WSub(Wide(0, current.send_bytes), Wide(0, last.send_bytes)), debug)
             sending == Checked(WScale(2, send_delta.val), debug)
         IN  IF rec_delta.panic \/ receiving.panic \/ send_delta.panic \/ sending.panic
             THEN [kind |-> "panic", receiving |-> WZero, sending |-> WZero]
             ELSE [kind |-> "drawn", receiving |-> receiving.val, sending |-> sending.val]

NetDraw ==
    /\ net_drawn.kind = "none"
    /\ net_drawn' = draw_rates(last_info, current_info, debug_assertions)
    /\ UNCHANGED <<debug_assertions, net_chan, current_info, last_info, net_cycles,
                   net_failed, netOthers>>

NetInit ==
    /\ net_chan = <<>>
    /\ current_info = DefaultNetworkInfo
    /\ last_info = DefaultNetworkInfo
    /\ net_drawn = [kind |-> "none", receiving |-> WZero, sending |-> WZero]
    /\ net_cycles = 0
    /\ net_failed = FALSE

NetIdle == NetInit

(***************************************************************************)
(* main.rs: the main loop's five try_recv calls; the collectors' tx.send   *)
(* (init_data_collection_thread of cpu.rs, mem.rs, disk.rs, processes.rs,  *)
(* network.rs); MemoryWidget::update, DiskWidget::update,                  *)
(* ProcessesWidget::update                                                 *)
(***************************************************************************)
\* bound: snapshots sent over all collectors
MaxPublished == 3

Subsystems == {"mem", "disk", "cpu", "proc", "net"}

\* a snapshot is named by its number in the order of sending; 0 names the
\* Default::default() value the main loop starts with (for cpu_stats: vec![])
NoSnapshot == 0

\* mpsc::Receiver::try_recv on a channel holding `chan`: the oldest message
\* pending, or Err when there is none
try_recv(chan) ==
    IF chan = <<>>
    THEN [ok |-> FALSE, value |-> NoSnapshot, rest |-> chan]
    ELSE [ok |-> TRUE, value |-> Head(chan), rest |-> Tail(chan)]

\* match .. { Ok(a) => a, Err(_) => vec![] }
match_or_empty(result) ==
    IF result.ok THEN result.value ELSE NoSnapshot

\* a variant of match_or_held that forgets the held snapshot on Err
match_or_default(result, snapshot) ==
    IF result.ok THEN result.value ELSE NoSnapshot

\* match .. { Ok(a) => a, Err(_) => mem_info }
match_or_held(result, snapshot) ==
    IF result.ok THEN result.value ELSE snapshot

\* one `x = match x_dc_thread.try_recv() { .. }` of the main loop
Recv(s, next, value) ==
    /\ loop_pc = s
    /\ chans' = [chans EXCEPT ![s] = try_recv(chans[s]).rest]
    /\ held' = [held EXCEPT ![s] = value]
    /\ loop_pc' = next
    /\ last_read' = [sub |-> s, pending |-> chans[s], got |-> try_recv(chans[s])]
    /\ UNCHANGED <<debug_assertions, published, mailOthers>>

RecvMem ==
    /\ Recv("mem", "disk", match_or_held(try_recv(chans["mem"]), held["mem"]))
    /\ UNCHANGED last_network_info

RecvDisk ==
    /\ Recv("disk", "cpu", match_or_held(try_recv(chans["disk"]), held["disk"]))
    /\ UNCHANGED last_network_info

RecvCpu ==
    /\ Recv("cpu", "proc", match_or_empty(try_recv(chans["cpu"])))
    /\ UNCHANGED last_network_info

RecvProcesses ==
    /\ Recv("proc", "net", match_or_held(try_recv(chans["proc"]), held["proc"]))
    /\ UNCHANGED last_network_info

RecvNetwork ==
    /\ Recv("net", "frame", match_or_held(try_recv(chans["net"]), held["net"]))
    /\ last_network_info' =
          IF try_recv(chans["net"]).ok THEN held["net"] ELSE last_network_info

\* the rest of one iteration: the CPU history, terminal.draw, the input
\* handling and the sleep; none of them touches a channel or a held snapshot
Frame ==
    /\ loop_pc = "frame"
    /\ loop_pc' = "mem"
    /\ UNCHANGED <<debug_assertions, chans, published, held, last_network_info,
                   last_read, mailOthers>>

\* tx.send of one collector thread
Send ==
    /\ published < MaxPublished
    /\ published' = published + 1
    /\ \E s \in Subsystems :
          chans' = [chans EXCEPT ![s] = Append(chans[s], published + 1)]
    /\ UNCHANGED <<debug_assertions, held, last_network_info, loop_pc, last_read,
                   mailOthers>>

MailInit ==
    /\ chans = [s \in Subsystems |-> <<>>]
    /\ published = 0
    /\ held = [s \in Subsystems |-> NoSnapshot]
    /\ last_network_info = NoSnapshot
    /\ loop_pc = "mem"
    /\ last_read = [sub |-> "none", pending |-> <<>>, got |-> try_recv(<<>>)]

MailIdle == MailInit

(***************************************************************************)
(* processes.rs: ProcessesWidget (new, sort, filter, update, draw,         *)
(* handle_input); util.rs: kill_process, update_niceness                   *)
(***************************************************************************)
\* bound: keys handled and snapshots offered to the widget in one run
MaxEvents == 7

\* bound: rows of a process list offered to the widget
MaxRows == 2

\* the characters the user types into a popup
Chars == {"-", "0", "2"}

\* the code point of a character (strings are sequences of characters)
CharCode(c) ==
    CASE c = "-" -> 45
      [] c = "0" -> 48
      [] c = "2" -> 50
      [] c = "R" -> 82
      [] c = "S" -> 83

IsDigit(c) == c \in {"0", "2"}

RECURSIVE DigitsValue(_, _)
DigitsValue(acc, digits) ==
    IF digits = <<>> THEN acc
    ELSE DigitsValue(10 * acc + (CharCode(Head(digits)) - 48), Tail(digits))

AllDigits(str) == str # <<>> /\ \A k \in 1..Len(str) : IsDigit(str[k])

\* str::parse::<i8>().unwrap_or_default(): an optional sign, at least one
\* digit, nothing else, a value an i8 holds; 0 otherwise
parse_i8_or_default(str) ==
    LET negative == str # <<>> /\ Head(str) = "-"
        digits == IF negative THEN Tail(str) ELSE str
        value == IF negative THEN -DigitsValue(0, digits) ELSE DigitsValue(0, digits)
    IN  IF AllDigits(digits) /\ value >= -128 /\ value <= 127 THEN value ELSE 0

\* str::parse::<usize>().unwrap_or_default(): digits only; 0 otherwise
parse_usize_or_default(str) ==
    IF AllDigits(str) THEN DigitsValue(0, str) ELSE 0

\* str::contains: `needle` occurs in `hay` as a substring
contains(hay, needle) ==
    \E k \in 0..Len(hay) :
        /\ k + Len(needle) <= Len(hay)
        /\ \A j \in 1..Len(needle) : hay[k + j] = needle[j]

IntCmp(a, b) == IF a < b THEN "Less" ELSE IF a > b THEN "Greater" ELSE "Equal"

RECURSIVE StrCmp(_, _)
\* String::partial_cmp: lexicographic by code point
StrCmp(a, b) ==
    IF a = <<>> THEN (IF b = <<>> THEN "Equal" ELSE "Less")
    ELSE IF b = <<>> THEN "Greater"
    ELSE IF Head(a) # Head(b) THEN IntCmp(CharCode(Head(a)), CharCode(Head(b)))
    ELSE StrCmp(Tail(a), Tail(b))

TripleCmp(x, y) ==
    IF x[1] # y[1] THEN IntCmp(x[1], y[1])
    ELSE IF x[2] # y[2] THEN IntCmp(x[2], y[2])
    ELSE IntCmp(x[3], y[3])

FloatRank(v) == CASE v.kind = "neg_inf" -> 0 [] v.kind = "finite" -> 1 [] v.kind = "pos_inf" -> 2

\* f32::partial_cmp(..).unwrap_or(Ordering::Equal): a NaN on either side
\* compares as Equal
FloatCmpOrEqual(a, b) ==
    IF a.kind = "nan" \/ b.kind = "nan" THEN "Equal"
    ELSE IF a.kind # "finite" \/ b.kind # "finite" THEN IntCmp(FloatRank(a), FloatRank(b))
    ELSE TripleCmp(WMul(a.num, b.den), WMul(b.num, a.den))

\* Process, the fields the table shows
Process(pid, parent_pid, tid, user, umask, threads, name, state, nice, cpu_usage, memory, command) ==
    [pid |-> pid, parent_pid |-> parent_pid, tid |-> tid, user |-> user,
     umask |-> umask, threads |-> threads, name |-> name, state |-> state,
     nice |-> nice, cpu_usage |-> cpu_usage, memory |-> memory, command |-> command]

\* the threads the process collector reports: two threads of process 2 and
\* the single thread of process 22; the last one with the NaN cpu_usage that
\* update_cpu_usage produces for an elapsed time of 0
TableProcesses ==
    { Process(2, 0, 2, <<"0">>, <<"0", "0", "2", "2">>, 2, <<"2", "0">>, <<"S">>, 0,
              Finite(WZero, Wide(0, 1)), 20, <<"2", "0">>),
      Process(2, 0, 20, <<"0">>, <<"0", "0", "2", "2">>, 2, <<"2", "0">>, <<"R">>, 2,
              Finite(Wide(0, 50), Wide(0, 1)), 20, <<"2", "0">>),
      Process(22, 2, 22, <<"2">>, <<"0", "0", "0", "2">>, 1, <<"2", "2">>, <<"S">>, -2,
              NaN, 2, <<"2", "2", "-", "0">>) }

\* the process lists the collector can send: at most MaxRows of the threads,
\* in the order in which /proc lists them (ascending pid, then ascending tid)
ProcessLists ==
    {l \in UNION {[1..n -> TableProcesses] : n \in 0..MaxRows} :
        \A j, k \in 1..Len(l) : j < k => l[j].tid < l[k].tid}

\* the comparator of ProcessesWidget::sort for one column, before the reversal
ColumnCmp(sort_index, a, b) ==
    CASE sort_index = 0 -> IntCmp(a.pid, b.pid)
      [] sort_index = 1 -> IntCmp(a.parent_pid, b.parent_pid)
      [] sort_index = 2 -> IntCmp(a.tid, b.tid)
      [] sort_index = 3 -> StrCmp(a.user, b.user)
      [] sort_index = 4 -> StrCmp(a.umask, b.umask)
      [] sort_index = 5 -> IntCmp(a.threads, b.threads)
      [] sort_index = 6 -> StrCmp(a.name, b.name)
      [] sort_index = 7 -> StrCmp(a.state, b.state)
      [] sort_index = 8 -> IntCmp(a.nice, b.nice)
      [] sort_index = 9 -> FloatCmpOrEqual(a.cpu_usage, b.cpu_usage)
      [] sort_index = 10 -> IntCmp(a.memory, b.memory)
      [] sort_index = 11 -> StrCmp(a.command, b.command)
      [] OTHER -> "Equal"

Reverse(ordering) ==
    CASE ordering = "Less" -> "Greater"
      [] ordering = "Greater" -> "Less"
      [] OTHER -> "Equal"

SortCmp(sort_index, sort_descending, a, b) ==
    IF sort_descending THEN Reverse(ColumnCmp(sort_index, a, b))
    ELSE ColumnCmp(sort_index, a, b)

RECURSIVE InsertStable(_, _, _, _)
InsertStable(sorted, x, sort_index, sort_descending) ==
    IF sorted = <<>> THEN <<x>>
    ELSE IF SortCmp(sort_index, sort_descending, Head(sorted), x) = "Greater"
         THEN <<x>> \o sorted
         ELSE <<Head(sorted)>> \o InsertStable(Tail(sorted), x, sort_index, sort_descending)

RECURSIVE StableSort(_, _, _)
StableSort(list, sort_index, sort_descending) ==
    IF list = <<>> THEN <<>>
    ELSE InsertStable(StableSort(SubSeq(list, 1, Len(list) - 1), sort_index, sort_descending),
                      list[Len(list)], sort_index, sort_descending)

Orderings(list) ==
    {[k \in 1..Len(list) |-> list[p[k]]] :
        p \in {q \in [1..Len(list) -> 1..Len(list)] :
                  \A j, k \in 1..Len(list) : j # k => q[j] # q[k]}}

\* the comparator is consistent on the list; on the CPU column it is not when
\* a NaN (Equal to everything) stands beside two values that differ
ConsistentOn(list, sort_index) ==
    ~ /\ sort_index = 9
      /\ \E k \in 1..Len(list) : list[k].cpu_usage.kind = "nan"
      /\ \E j, k \in 1..Len(list) :
            /\ list[j].cpu_usage.kind # "nan" /\ list[k].cpu_usage.kind # "nan"
            /\ FloatCmpOrEqual(list[j].cpu_usage, list[k].cpu_usage) # "Equal"

\* ProcessesWidget::sort: slice::sort_by, a stable sort; when the comparator
\* is inconsistent the order of the result is unspecified
sort(list, sort_index, sort_descending) ==
    IF ConsistentOn(list, sort_index)
    THEN {StableSort(list, sort_index, sort_descending)}
    ELSE Orderings(list)

NoFilter == <<>>

\* ProcessesWidget::new, with the process list the widget holds
NewWidget ==
    [item_index |-> 0, sort_index |-> 9, column_index |-> 9,
     filter_index |-> NoFilter, filter_value_str |-> <<>>, filter_value_usize |-> 0,
     sort_descending |-> TRUE, process_list |-> <<>>, popup_open |-> FALSE,
     input |-> <<>>, input_mode |-> "Niceness"]

is_usize_column(v) == v <= 2 \/ v = 5

is_string_column(v) == v = 3 \/ v = 6 \/ v = 7 \/ v = 11 \/ v = 4

\* ProcessesWidget::filter
filter(w, p) ==
    IF w.filter_index = NoFilter THEN TRUE
    ELSE CASE w.filter_index[1] = 0 -> p.pid = w.filter_value_usize
           [] w.filter_index[1] = 1 -> p.parent_pid = w.filter_value_usize
           [] w.filter_index[1] = 2 -> p.tid = w.filter_value_usize
           [] w.filter_index[1] = 5 -> p.threads = w.filter_value_usize
           [] w.filter_index[1] = 3 -> contains(p.user, w.filter_value_str)
           [] w.filter_index[1] = 4 -> contains(p.umask, w.filter_value_str)
           [] w.filter_index[1] = 6 -> contains(p.name, w.filter_value_str)
           [] w.filter_index[1] = 7 -> contains(p.state, w.filter_value_str)
           [] w.filter_index[1] = 11 -> contains(p.command, w.filter_value_str)
           [] OTHER -> TRUE

RECURSIVE Filtered(_, _)
Filtered(w, list) ==
    IF list = <<>> THEN <<>>
    ELSE (IF filter(w, Head(list)) THEN <<Head(list)>> ELSE <<>>) \o Filtered(w, Tail(list))

\* ProcessesWidget::draw: the rows handed to the table
Displayed(w) == Filtered(w, w.process_list)

\* ProcessesWidget::draw: the table highlights the displayed row at
\* table_state.selected, which handle_input keeps equal to item_index
SelectedRow(w) ==
    IF w.item_index < Len(Displayed(w)) THEN <<Displayed(w)[w.item_index + 1]>> ELSE <<>>

Command(cmd, tid, value) == [cmd |-> cmd, tid |-> tid, value |-> value]

Outcome(w, commands, panic) == [widget |-> w, commands |-> commands, panic |-> panic]

\* util::update_niceness up to the spawn of renice
update_niceness(pid, new_niceness) ==
    IF new_niceness >= -20 /\ new_niceness <= 19
    THEN <<Command("renice", pid, new_niceness)>>
    ELSE <<>>

\* util::kill_process up to the spawn of kill
kill_process(pid) == <<Command("kill", pid, 9)>>

\* a variant of the key r that keeps only the rows the filter let through
remove_filter_and_rows(w) ==
    [w EXCEPT !.filter_index = NoFilter,
              !.process_list = SelectSeq(@, LAMBDA p : filter(w, p))]

\* a variant of the key r that also moves the selection to the first row
remove_filter_and_selection(w) == [w EXCEPT !.filter_index = NoFilter, !.item_index = 0]

\* the key r: self.filter_index = None
remove_filter(w) == [w EXCEPT !.filter_index = NoFilter]

\* a variant of self.input.clear() that leaves the buffer as it is
input_kept(input) == input

\* self.input.clear()
input_clear(input) == <<>>

\* a variant of the keys c and Esc that removes the active filter as well
cancel_and_remove_filter(w) ==
    [w EXCEPT !.input = input_clear(w.input), !.popup_open = FALSE, !.filter_index = NoFilter]

\* the keys c and Esc in a popup: self.input.clear(); self.popup_open = false
cancel(w) == [w EXCEPT !.input = input_clear(w.input), !.popup_open = FALSE]

\* a variant of the key s that inverts the direction on every press
sort_direction_always_inverted(w) == ~w.sort_descending

\* the key s: `if self.sort_index == self.column_index { self.sort_descending =
\* !self.sort_descending; }`
sort_direction(w) ==
    IF w.sort_index = w.column_index THEN ~w.sort_descending ELSE w.sort_descending

\* handle_input, popup closed
handle_input_browsing(w, key, debug) ==
    CASE key = "Down" ->
           LET last == Checked(Wide(0, Len(w.process_list) - 1), debug)
           IN  IF last.panic THEN {Outcome(w, <<>>, "subtract_overflow")}
               ELSE IF last.val.hi > 0 \/ w.item_index < last.val.lo
                    THEN {Outcome([w EXCEPT !.item_index = @ + 1], <<>>, "none")}
                    ELSE {Outcome(w, <<>>, "none")}
      [] key = "Up" ->
           {Outcome(IF w.item_index > 0 THEN [w EXCEPT !.item_index = @ - 1] ELSE w,
                    <<>>, "none")}
      [] key = "Right" ->
           {Outcome(IF w.column_index < 12 THEN [w EXCEPT !.column_index = @ + 1] ELSE w,
                    <<>>, "none")}
      [] key = "Left" ->
           {Outcome(IF w.column_index > 0 THEN [w EXCEPT !.column_index = @ - 1] ELSE w,
                    <<>>, "none")}
      [] key = "f" ->
           {Outcome([w EXCEPT !.input_mode = "Filter", !.popup_open = TRUE], <<>>, "none")}
      [] key = "r" ->
           {Outcome(remove_filter(w), <<>>, "none")}
      [] key = "k" ->
           IF w.item_index >= Len(w.process_list)
           THEN {Outcome(w, <<>>, "index_out_of_bounds")}
           ELSE {Outcome(w, kill_process(w.process_list[w.item_index + 1].tid), "none")}
      [] key = "n" ->
           {Outcome([w EXCEPT !.input_mode = "Niceness", !.popup_open = TRUE], <<>>, "none")}
      [] key = "s" ->
           LET descending == sort_direction(w)
           IN  {Outcome([w EXCEPT !.sort_descending = descending,
                                  !.sort_index = w.column_index,
                                  !.process_list = sorted], <<>>, "none") :
                   sorted \in sort(w.process_list, w.column_index, descending)}
      [] OTHER -> {Outcome(w, <<>>, "none")}

\* the keys that arrive as Key::Char: the characters typed into a popup and
\* the command characters of Browsing (c and the line feed of Enter are
\* matched before them)
CharKeys == Chars \cup {"s", "f", "r", "k", "n"}

\* a variant of the last arm of the popup in which Left and Right still move
\* the focus
popup_moves_focus(w, key) ==
    IF key = "Right" /\ w.column_index < 12 THEN [w EXCEPT !.column_index = @ + 1]
    ELSE IF key = "Left" /\ w.column_index > 0 THEN [w EXCEPT !.column_index = @ - 1]
    ELSE w

\* `_ => {}` with the popup open
popup_ignores(w, key) == w

\* handle_input, popup open
handle_input_popup(w, key) ==
    CASE key = "Backspace" ->
           {Outcome([w EXCEPT !.input = IF @ = <<>> THEN @ ELSE SubSeq(@, 1, Len(@) - 1)],
                    <<>>, "none")}
      [] key = "Enter" ->
           LET closed == [w EXCEPT !.input = input_clear(w.input), !.popup_open = FALSE]
           IN  IF w.input_mode = "Niceness"
               THEN IF w.item_index >= Len(w.process_list)
                    THEN {Outcome(w, <<>>, "index_out_of_bounds")}
                    ELSE {Outcome(closed,
                                  update_niceness(w.process_list[w.item_index + 1].tid,
                                                  parse_i8_or_default(w.input)),
                                  "none")}
               ELSE LET i == w.column_index
                    IN  {Outcome([closed EXCEPT
                                    !.filter_index = <<i>>,
                                    !.filter_value_usize =
                                        IF is_usize_column(i)
                                        THEN parse_usize_or_default(w.input) ELSE @,
                                    !.filter_value_str =
                                        IF ~is_usize_column(i) /\ is_string_column(i)
                                        THEN w.input ELSE @],
                                 <<>>, "none")}
      [] key \in {"c", "Esc"} ->
           {Outcome(cancel(w), <<>>, "none")}
      [] key \in CharKeys ->
           {Outcome(IF w.input_mode = "Filter" \/ Len(w.input) < 3
                    THEN [w EXCEPT !.input = Append(@, key)] ELSE w,
                    <<>>, "none")}
      [] OTHER -> {Outcome(popup_ignores(w, key), <<>>, "none")}

\* ProcessesWidget::handle_input: the widget after the key, the commands it
\* spawns, and the place of a panic if there is one
handle_input(w, key, debug) ==
    IF ~w.popup_open THEN handle_input_browsing(w, key, debug)
    ELSE handle_input_popup(w, key)

\* ProcessesWidget::update: `received` is <<>> (try_recv found nothing) or
\* holds the list received
update(w, received) ==
    IF received # <<>> /\ ~w.popup_open
    THEN {[w EXCEPT !.process_list = sorted] :
             sorted \in sort(received[1], w.sort_index, w.sort_descending)}
    ELSE {w}

\* the keys the user presses: command keys while browsing, the characters of
\* Chars and the editing keys into a popup
KeysPressed(w) ==
    IF w.popup_open
    THEN Chars \cup {"Enter", "c", "Esc", "Backspace", "Down"}
    ELSE {"Down", "Up", "Left", "Right", "f", "r", "k", "n", "s", "0"}

\* how a spawned command ends: it ran and succeeded, it ran and failed (no
\* permission, no such process), or it could not be spawned at all
CommandResults == {"succeeded", "failed", "not_spawned"}

\* the state of the controller: Browsing, PopupNiceness or PopupFilter
Mode(w) == IF ~w.popup_open THEN "Browsing" ELSE "Popup" \o w.input_mode

\* pw_last after a key other than k and Enter, and after an update
NothingDispatched ==
    [key |-> "other", mode |-> "Browsing", input |-> <<>>, selected |-> <<>>,
     commands |-> <<>>, result |-> "none"]

\* one key handled by handle_input; Command::output().expect(..) panics when
\* the command cannot be spawned
HandleInput ==
    /\ pw_pc = "running"
    /\ pw_events < MaxEvents
    /\ pw_events' = pw_events + 1
    /\ \E key \in KeysPressed(pw), result \in CommandResults :
       \E o \in handle_input(pw, key, debug_assertions) :
          /\ result # "succeeded" => o.commands # <<>>
          /\ pw_last' = IF key \in {"k", "Enter"}
                         THEN [key |-> key, mode |-> Mode(pw), input |-> pw.input,
                               selected |-> SelectedRow(pw), commands |-> o.commands,
                               result |-> IF o.commands = <<>> THEN "none" ELSE result]
                         ELSE NothingDispatched
          /\ IF o.panic # "none"
             THEN pw_pc' = o.panic /\ pw' = pw /\ UNCHANGED pw_filter_input
             ELSE IF o.commands # <<>> /\ result = "not_spawned"
                  THEN pw_pc' = "expect" /\ pw' = pw /\ UNCHANGED pw_filter_input
                  ELSE /\ pw_pc' = "running"
                       /\ pw' = o.widget
                       /\ pw_filter_input' =
                             IF key = "Enter" /\ Mode(pw) = "PopupFilter"
                             THEN pw.input ELSE pw_filter_input
    /\ UNCHANGED <<debug_assertions, widgetOthers>>

\* ProcessesWidget::update, called once per frame
WidgetUpdate ==
    /\ pw_pc = "running"
    /\ pw_events < MaxEvents
    /\ pw_events' = pw_events + 1
    /\ \E received \in {<<>>} \cup {<<l>> : l \in ProcessLists} :
       \E w \in update(pw, received) :
          /\ pw' = w
          /\ pw_last' = NothingDispatched
    /\ UNCHANGED <<debug_assertions, pw_pc, pw_filter_input, widgetOthers>>

WidgetInit ==
    /\ pw = NewWidget
    /\ pw_pc = "running"
    /\ pw_events = 0
    /\ pw_filter_input = <<>>
    /\ pw_last = NothingDispatched

WidgetIdle == WidgetInit

(***************************************************************************)
(* util.rs: InputHandler::new (the input thread), InputHandler::next       *)
(***************************************************************************)
\* bound: the time modelled, in milliseconds
MaxClock == 310

\* bound: key events read from stdin
MaxRead == 4

\* the interval of `if m > 150`
INTERVAL == 150

\* the time that passes between two steps, in milliseconds
Elapses == {75, 76}

\* a variant of the test of the input thread that lets an event through
\* already when the interval has just been reached
interval_reached(m) == m >= INTERVAL

\* the test `m > 150` of the input thread, m = previous_time.elapsed().as_millis()
interval_exceeded(m) == m > INTERVAL

\* time passes
InputTick ==
    /\ \E d \in Elapses :
          /\ in_clock + d <= MaxClock
          /\ in_clock' = in_clock + d
    /\ UNCHANGED <<debug_assertions, previous_time, key_chan, in_sent, in_dropped,
                   in_received, in_read, inputOthers>>

\* one iteration of `for evt in stdin.keys()`: the event is sent when more
\* than 150 ms have passed since previous_time and it is Ok; previous_time
\* is reset whenever the interval has passed
KeyRead ==
    /\ in_read < MaxRead
    /\ in_read' = in_read + 1
    /\ \E evt_ok \in BOOLEAN :
          LET m == in_clock - previous_time
              key == [id |-> in_read + 1, at |-> in_clock]
          IN  IF interval_exceeded(m)
              THEN /\ previous_time' = in_clock
                   /\ IF evt_ok
                      THEN /\ key_chan' = Append(key_chan, key)
                           /\ in_sent' = Append(in_sent, key)
                           /\ UNCHANGED in_dropped
                      ELSE UNCHANGED <<key_chan, in_sent, in_dropped>>
              ELSE /\ in_dropped' = IF evt_ok THEN in_dropped \cup {key} ELSE in_dropped
                   /\ UNCHANGED <<previous_time, key_chan, in_sent>>
    /\ UNCHANGED <<debug_assertions, in_clock, in_received, inputOthers>>

\* InputHandler::next: self.rx.try_recv()
InputNext ==
    /\ key_chan # <<>>
    /\ in_received' = Append(in_received, Head(key_chan))
    /\ key_chan' = Tail(key_chan)
    /\ UNCHANGED <<debug_assertions, in_clock, previous_time, in_sent, in_dropped,
                   in_read, inputOthers>>

InputInit ==
    /\ in_clock = 0
    /\ previous_time = 0
    /\ key_chan = <<>>
    /\ in_sent = <<>>
    /\ in_dropped = {}
    /\ in_received = <<>>
    /\ in_read = 0

InputIdle == InputInit

(***************************************************************************)
(* disk.rs: get_disks_usage, init_data_collection_thread; main.rs: the     *)
(* try_recv on disk_dc_thread                                              *)
(***************************************************************************)
\* bound: iterations of the disk collector modelled
MaxDiskCycles == 2

\* bound: lines of one df output
MaxDfLines == 2

\* "/dev/", the prefix of the lines get_disks_usage keeps
DevSlash == <<"/", "d", "e", "v", "/">>

\* "/dev", the text removed from the first word
Dev == <<"/", "d", "e", "v">>

\* str::starts_with
starts_with(str, prefix) ==
    Len(str) >= Len(prefix) /\ SubSeq(str, 1, Len(prefix)) = prefix

\* str::replace(from, ""): every non-overlapping occurrence of `from`, from
\* the left, is removed
RECURSIVE replace_with_empty(_, _)
replace_with_empty(str, from) ==
    IF str = <<>> THEN <<>>
    ELSE IF starts_with(str, from)
    THEN replace_with_empty(SubSeq(str, Len(from) + 1, Len(str)), from)
    ELSE <<Head(str)>> \o replace_with_empty(Tail(str), from)

\* lines of a df output, each as the words split_whitespace yields: a line
\* of a file system that is no device, a complete line of /dev/2 and a line
\* of /dev/0 that ends after a total that is no number
DfLines ==
    { << <<"d", "e", "v">>, <<"2", "0">>, <<"0">>, <<"2", "0">>, <<"0">>, <<"/", "d", "e", "v">> >>,
      << DevSlash \o <<"2">>, <<"2", "0", "0">>, <<"2", "0">>, <<"2", "2">>, <<"2", "0">>, <<"/">> >>,
      << DevSlash \o <<"0">>, <<"-">> >> }

\* what running df can give: the command cannot be spawned, its stdout is
\* no UTF-8, or its stdout holds the lines
DfOutputs ==
    {[kind |-> "not_spawned", lines |-> <<>>], [kind |-> "invalid_utf8", lines |-> <<>>]}
    \cup {[kind |-> "output", lines |-> ls] :
             ls \in UNION {[1..n -> DfLines] : n \in 0..MaxDfLines}}

DiskInfo(filesystem, total, used, available, used_percentage, mountpoint) ==
    [filesystem |-> filesystem, total |-> total, used |-> used, available |-> available,
     used_percentage |-> used_percentage, mountpoint |-> mountpoint]

\* sliced_line.next() for the k-th word: the word, or "" when the line has ended
WordOrEmpty(words, k) == IF k <= Len(words) THEN words[k] ELSE <<>>

\* the DiskInfo built from one line that starts with "/dev/"
ParseDfLine(words) ==
    DiskInfo(replace_with_empty(WordOrEmpty(words, 1), Dev),
             parse_usize_or_default(WordOrEmpty(words, 2)),
             parse_usize_or_default(WordOrEmpty(words, 3)),
             parse_usize_or_default(WordOrEmpty(words, 4)),
             WordOrEmpty(words, 5),
             WordOrEmpty(words, 6))

\* `for line in df_output_string.lines()`: a DiskInfo for every line that
\* starts with "/dev/"
RECURSIVE ParseDfLines(_)
ParseDfLines(lines) ==
    IF lines = <<>> THEN <<>>
    ELSE IF Head(lines) # <<>> /\ starts_with(Head(lines)[1], DevSlash)
    THEN <<ParseDfLine(Head(lines))>> \o ParseDfLines(Tail(lines))
    ELSE ParseDfLines(Tail(lines))

\* get_disks_usage: panics when df cannot be run and when its output is no
\* UTF-8; the disks otherwise
get_disks_usage(df) ==
    IF df.kind = "not_spawned" THEN [panic |-> "df_output", disks |-> <<>>]
    ELSE IF df.kind = "invalid_utf8" THEN [panic |-> "from_utf8", disks |-> <<>>]
    ELSE [panic |-> "none", disks |-> ParseDfLines(df.lines)]

\* one iteration of the collector thread: get_disks_usage, tx.send(m),
\* thread::sleep(dur); a panic in get_disks_usage ends the thread
DiskCollect ==
    /\ disk_pc = "running"
    /\ disk_cycles < MaxDiskCycles
    /\ disk_cycles' = disk_cycles + 1
    /\ \E df \in DfOutputs :
          LET m == get_disks_usage(df)
          IN  /\ disk_df' = df
              /\ IF m.panic = "none"
                 THEN /\ disk_chan' = Append(disk_chan, m.disks)
                      /\ UNCHANGED disk_pc
                 ELSE /\ disk_pc' = m.panic
                      /\ UNCHANGED disk_chan
    /\ UNCHANGED <<debug_assertions, disk_info, diskOthers>>

\* main.rs: disk_info = match disk_dc_thread.try_recv() { Ok(a) => a, Err(_) => disk_info }
DiskRecv ==
    /\ disk_info' = match_or_held(try_recv(disk_chan), disk_info)
    /\ disk_chan' = try_recv(disk_chan).rest
    /\ UNCHANGED <<debug_assertions, disk_pc, disk_cycles, disk_df, diskOthers>>

DiskInit ==
    /\ disk_chan = <<>>
    /\ disk_pc = "running"
    /\ disk_cycles = 0
    /\ disk_df = [kind |-> "output", lines |-> <<>>]
    /\ disk_info = <<>>

DiskIdle == DiskInit

(***************************************************************************)
(* processes.rs: Process::update_stat on the first line of                 *)
(* /proc/<pid>/task/<tid>/stat                                             *)
(***************************************************************************)
\* bound: characters of a command name
MaxComm == 3

\* the characters command names are built from
CommChars == {"a", ")", " "}

\* the command names: the text the kernel puts between "(" and ")"
Comms == UNION {[1..n -> CommChars] : n \in 1..MaxComm}

\* a command name without parenthesis or space
PlainComm == <<"a">>

\* the values of the fields read: state, ppid, utime, stime, nice, num_threads
StatStates == {<<"S">>, <<"R">>}
StatNumbers == {<<"0">>, <<"2", "0">>}
StatNices == {<<"0">>, <<"-", "2">>}

StatFields ==
    [state : StatStates, ppid : StatNumbers, utime : StatNumbers, stime : StatNumbers,
     nice : StatNices, num_threads : {<<"2">>, <<"2", "2">>}]

\* the words of `words`, each followed by `sep`
RECURSIVE Terminated(_, _)
Terminated(words, sep) ==
    IF words = <<>> THEN <<>>
    ELSE Head(words) \o sep \o Terminated(Tail(words), sep)

\* the line of proc(5): pid (comm) state ppid pgrp session tty_nr tpgid flags
\* minflt cminflt majflt cmajflt utime stime cutime cstime priority nice
\* num_threads itrealvalue starttime, ended by a line feed (the fields after
\* starttime are not read and left out)
StatLine(comm, f) ==
    <<"2", " ", "(">> \o comm \o <<")", " ">>
    \o Terminated(<<f.state, f.ppid, <<"2">>, <<"2">>, <<"0">>, <<"-", "2">>,
                    <<"0">>, <<"2">>, <<"0">>, <<"0">>, <<"0">>, f.utime, f.stime,
                    <<"0">>, <<"0">>, <<"2", "0">>, f.nice, f.num_threads, <<"0">>>>,
                  <<" ">>)
    \o <<"2", "2", "\n">>

\* str::split(pat).collect(): the pieces between the occurrences of `pat`,
\* found from the left without overlap; `piece` is the piece begun
RECURSIVE SplitFrom(_, _, _)
SplitFrom(str, pat, piece) ==
    IF str = <<>> THEN <<piece>>
    ELSE IF starts_with(str, pat)
    THEN <<piece>> \o SplitFrom(SubSeq(str, Len(pat) + 1, Len(str)), pat, <<>>)
    ELSE SplitFrom(Tail(str), pat, Append(piece, Head(str)))

\* a variant of the choice of tmp[1]: the text after the last ") "
after_last(tmp) == tmp[Len(tmp)]

\* tmp[1] of `let tmp: Vec<&str> = result.split(") ").collect()`
after_first(tmp) == tmp[2]

\* no call of update_stat yet
NotParsed == [site |-> "not_called"]

\* Process::update_stat on the line read; indexing past the end of tmp or
\* metrics panics.  utime and stime are far from usize::MAX, their sum is
\* taken as it is.
update_stat(result) ==
    LET tmp == SplitFrom(result, <<")", " ">>, <<>>)
    IN  IF Len(tmp) < 2 THEN [site |-> "tmp_index"]
        ELSE LET metrics == SplitFrom(after_first(tmp), <<" ">>, <<>>)
             IN  IF Len(metrics) < 18 THEN [site |-> "metrics_index"]
                 ELSE [site |-> "none",
                       state |-> metrics[1],
                       parent_pid |-> parse_usize_or_default(metrics[2]),
                       nice |-> parse_i8_or_default(metrics[17]),
                       threads |-> parse_usize_or_default(metrics[18]),
                       cpu_time |-> parse_usize_or_default(metrics[12])
                                    + parse_usize_or_default(metrics[13])]

\* the call of update_stat on the line held
StatParse ==
    /\ stat_out = NotParsed
    /\ stat_out' = update_stat(StatLine(stat_comm, stat_fields))
    /\ UNCHANGED <<debug_assertions, stat_comm, stat_fields, statOthers>>

\* the thread changes its command name (prctl PR_SET_NAME) and its stat
\* file is read again in the next cycle
StatNext ==
    /\ stat_out # NotParsed
    /\ stat_comm' \in Comms
    /\ stat_out' = NotParsed
    /\ UNCHANGED <<debug_assertions, stat_fields, statOthers>>

StatInit ==
    /\ stat_comm = PlainComm
    /\ stat_fields \in StatFields
    /\ stat_out = NotParsed

StatIdle ==
    /\ stat_comm = PlainComm
    /\ stat_fields = [state |-> <<"S">>, ppid |-> <<"0">>, utime |-> <<"0">>,
                      stime |-> <<"0">>, nice |-> <<"0">>, num_threads |-> <<"2">>]
    /\ stat_out = NotParsed

(***************************************************************************)
(* cpu.rs: CpuWidget::update; main.rs: the same loop over cpu_stats        *)
(***************************************************************************)
\* bound: updates of the history modelled
MaxHistUpdates == 2

\* the threshold of the histories
HISTORY == 300

\* utilization values that arrive (f64 in the code; the history only stores them)
Utils == {10, 90}

\* lengths the histories start with: empty, one below the threshold, at the threshold
StartLens == {0, HISTORY - 1, HISTORY}

\* a history of n earlier values
Earlier(n) == [i \in 1..n |-> i % 3]

\* the prefixes of the cpu lines of /proc/stat (a read error ends the
\* collector's loop early), each row with a utilization
HistNames == UNION {{SubSeq(names, 1, n) : n \in 1..Len(names)} : names \in CpuLineNames}

\* what try_recv hands to the loop: vec![] when nothing is in the channel,
\* otherwise a vector the collector sent
HistStats ==
    {<<>>} \cup {[k \in 1..Len(names) |-> [cpu_name |-> names[k], utilization |-> u]] :
                    names \in HistNames, u \in Utils}

\* a variant that removes an entry only above the threshold
above_threshold(values) == Len(values) > HISTORY

\* `if self.cpu_values.len() == 300`
at_threshold(values) == Len(values) = HISTORY

\* remove(0) at the threshold, then push
push_value(values, utilization) ==
    Append(IF at_threshold(values) THEN Tail(values) ELSE values, utilization)

RECURSIVE HistLoop(_, _, _, _)
\* `for b in cpu_stats`: the aggregate row goes to cpu_values, any other row
\* to core_values[counter], a new vector being pushed when there is none
HistLoop(rows, cpu, cores, counter) ==
    IF rows = <<>> THEN [cpu_values |-> cpu, core_values |-> cores]
    ELSE LET b == Head(rows)
         IN  IF b.cpu_name = "cpu"
             THEN HistLoop(Tail(rows), push_value(cpu, b.utilization), cores, counter)
             ELSE IF Len(cores) > counter
             THEN HistLoop(Tail(rows), cpu,
                           [cores EXCEPT ![counter + 1] = push_value(@, b.utilization)],
                           counter + 1)
             ELSE HistLoop(Tail(rows), cpu, Append(cores, <<b.utilization>>), counter + 1)

RECURSIVE Arrivals(_, _, _, _)
\* every value in the order it arrived: the aggregate ones, and per position
\* among the core rows
Arrivals(rows, cpu, cores, counter) ==
    IF rows = <<>> THEN [cpu |-> cpu, cores |-> cores]
    ELSE LET b == Head(rows)
         IN  IF b.cpu_name = "cpu"
             THEN Arrivals(Tail(rows), Append(cpu, b.utilization), cores, counter)
             ELSE IF Len(cores) > counter
             THEN Arrivals(Tail(rows), cpu,
                           [cores EXCEPT ![counter + 1] = Append(@, b.utilization)],
                           counter + 1)
             ELSE Arrivals(Tail(rows), cpu, Append(cores, <<b.utilization>>), counter + 1)

\* CpuWidget::update: try_recv and the loop over cpu_stats
HistUpdate ==
    /\ hist_updates < MaxHistUpdates
    /\ \E cpu_stats \in HistStats :
         LET r == HistLoop(cpu_stats, cpu_values, core_values, 0)
         IN  /\ cpu_values' = r.cpu_values
             /\ core_values' = r.core_values
             /\ hist_arrived' = Arrivals(cpu_stats, hist_arrived.cpu, hist_arrived.cores, 0)
    /\ hist_updates' = hist_updates + 1
    /\ UNCHANGED <<debug_assertions, histOthers>>

\* the histories after some time of running: the aggregate history and the
\* histories of up to two cores, each of a length of StartLens
HistInit ==
    /\ cpu_values \in {Earlier(n) : n \in StartLens}
    /\ core_values \in {<<>>} \cup {<<Earlier(a)>> : a \in StartLens \ {0}}
                          \cup {<<Earlier(a), Earlier(b)>> : a, b \in StartLens \ {0}}
    /\ hist_arrived = [cpu |-> cpu_values, cores |-> core_values]
    /\ hist_updates = 0

\* the part at rest: CpuWidget::new
HistIdle ==
    /\ cpu_values = <<>>
    /\ core_values = <<>>
    /\ hist_arrived = [cpu |-> <<>>, cores |-> <<>>]
    /\ hist_updates = 0

(***************************************************************************)
(* main.rs: AppLogic, WidgetType and the event handling of the main loop   *)
(***************************************************************************)
\* bound: iterations of the main loop modelled
MaxNavEvents == 6

\* vec![Memory, Disk, Network, CPU, Processes]
data_widgets == <<"Memory", "Disk", "Network", "CPU", "Processes">>

\* WidgetType::get_value().0
get_value(widget) ==
    CASE widget = "Memory" -> 0
      [] widget = "Disk" -> 1
      [] widget = "Network" -> 2
      [] widget = "CPU" -> 3
      [] widget = "Processes" -> 4

\* WidgetType::get_by_id, with its default case
get_by_id(id) ==
    CASE id = 0 -> "Memory"
      [] id = 1 -> "Disk"
      [] id = 2 -> "Network"
      [] id = 3 -> "CPU"
      [] id = 4 -> "Processes"
      [] OTHER -> "Memory"

\* what input_handler.next() gives an iteration: no event, an event that is
\* not an input, or a key (any other key stands as "a")
NavEvents == {"none", "other", "Ctrl-c", "Esc", "Left", "Right", "a"}

\* a variant that compares the id with the number of widgets
before_end(id) == id < Len(data_widgets)

\* `id < data_widgets.len() - 1`
before_last(id) == id < Len(data_widgets) - 1

\* the match on app.state and the key; `running` is FALSE after break
handle_event(state, widget, event) ==
    LET id == get_value(widget)
        same == [state |-> state, widget |-> widget, running |-> TRUE]
    IN  IF event \in {"none", "other"} THEN same
        ELSE IF state = "Interaction"
        THEN CASE event = "Ctrl-c" -> [same EXCEPT !.running = FALSE]
               [] event = "Esc" -> [same EXCEPT !.state = "Navigation"]
               [] OTHER -> same
        ELSE CASE event = "Ctrl-c" -> [same EXCEPT !.running = FALSE]
               [] event = "Right" ->
                    IF before_last(id) THEN [same EXCEPT !.widget = get_by_id(id + 1)] ELSE same
               [] event = "Left" ->
                    IF id > 0 THEN [same EXCEPT !.widget = get_by_id(id - 1)] ELSE same
               [] event = "Esc" -> [same EXCEPT !.state = "Interaction"]
               [] OTHER -> same

\* one iteration of the loop: input_handler.next() and the event handling
NavHandle ==
    /\ nav_running
    /\ nav_count < MaxNavEvents
    /\ \E event \in NavEvents :
         LET r == handle_event(app_state, current_widget, event)
         IN  /\ app_state' = r.state
             /\ current_widget' = r.widget
             /\ nav_running' = r.running
             /\ nav_event' = event
    /\ nav_count' = nav_count + 1
    /\ UNCHANGED <<debug_assertions, navOthers>>

\* AppLogic { state: Interaction, current_widget: Memory }
NavInit ==
    /\ app_state = "Interaction"
    /\ current_widget = "Memory"
    /\ nav_running = TRUE
    /\ nav_event = "none"
    /\ nav_count = 0

NavIdle == NavInit

(***************************************************************************)
(* Specifications                                                          *)
(***************************************************************************)
InitCalc ==
    /\ debug_assertions \in BOOLEAN
    /\ NavIdle
    /\ HistIdle
    /\ StatIdle
    /\ DiskIdle
    /\ CalcInit /\ ProcIdle /\ CpuIdle /\ NetIoIdle /\ NetIdle /\ MailIdle
    /\ WidgetIdle
    /\ InputIdle

NextCalc == Calculate \/ NextSample

SpecCalc == InitCalc /\ [][NextCalc]_vars

InitProc ==
    /\ debug_assertions \in BOOLEAN
    /\ NavIdle
    /\ HistIdle
    /\ StatIdle
    /\ DiskIdle
    /\ ProcInit /\ CalcIdle /\ CpuIdle /\ NetIoIdle /\ NetIdle /\ MailIdle
    /\ WidgetIdle
    /\ InputIdle

NextProc == BeginCycle \/ Observe \/ Publish \/ ClockSetBack

SpecProc == InitProc /\ [][NextProc]_vars

InitCpu ==
    /\ debug_assertions \in BOOLEAN
    /\ NavIdle
    /\ HistIdle
    /\ StatIdle
    /\ DiskIdle
    /\ CpuInit /\ CalcIdle /\ ProcIdle /\ NetIoIdle /\ NetIdle /\ MailIdle
    /\ WidgetIdle
    /\ InputIdle

NextCpu == CpuCycle

SpecCpu == InitCpu /\ [][NextCpu]_vars

InitNetIo ==
    /\ debug_assertions \in BOOLEAN
    /\ NavIdle
    /\ HistIdle
    /\ StatIdle
    /\ DiskIdle
    /\ NetIoInit /\ CalcIdle /\ ProcIdle /\ CpuIdle /\ NetIdle /\ MailIdle
    /\ WidgetIdle
    /\ InputIdle

NextNetIo == NetSample

SpecNetIo == InitNetIo /\ [][NextNetIo]_vars

InitNet ==
    /\ debug_assertions \in BOOLEAN
    /\ NavIdle
    /\ HistIdle
    /\ StatIdle
    /\ DiskIdle
    /\ NetInit /\ CalcIdle /\ ProcIdle /\ CpuIdle /\ NetIoIdle /\ MailIdle
    /\ WidgetIdle
    /\ InputIdle

NextNet == NetCollect \/ NetUpdate \/ NetDraw

SpecNet == InitNet /\ [][NextNet]_vars

InitMail ==
    /\ debug_assertions \in BOOLEAN
    /\ NavIdle
    /\ HistIdle
    /\ StatIdle
    /\ DiskIdle
    /\ MailInit /\ CalcIdle /\ ProcIdle /\ CpuIdle /\ NetIoIdle /\ NetIdle
    /\ WidgetIdle
    /\ InputIdle

NextMail ==
    \/ RecvMem \/ RecvDisk \/ RecvCpu \/ RecvProcesses \/ RecvNetwork
    \/ Frame \/ Send

SpecMail == InitMail /\ [][NextMail]_vars

InitWidget ==
    /\ debug_assertions \in BOOLEAN
    /\ NavIdle
    /\ HistIdle
    /\ StatIdle
    /\ DiskIdle
    /\ WidgetInit /\ CalcIdle /\ ProcIdle /\ CpuIdle /\ NetIoIdle /\ NetIdle /\ MailIdle
    /\ InputIdle

NextWidget == HandleInput \/ WidgetUpdate

SpecWidget == InitWidget /\ [][NextWidget]_vars

InitInput ==
    /\ debug_assertions \in BOOLEAN
    /\ NavIdle
    /\ HistIdle
    /\ StatIdle
    /\ DiskIdle
    /\ InputInit /\ CalcIdle /\ ProcIdle /\ CpuIdle /\ NetIoIdle /\ NetIdle /\ MailIdle
    /\ WidgetIdle

NextInput == InputTick \/ KeyRead \/ InputNext

SpecInput == InitInput /\ [][NextInput]_vars

InitDisk ==
    /\ debug_assertions \in BOOLEAN
    /\ NavIdle
    /\ HistIdle
    /\ StatIdle
    /\ DiskInit /\ CalcIdle /\ ProcIdle /\ CpuIdle /\ NetIoIdle /\ NetIdle /\ MailIdle
    /\ WidgetIdle
    /\ InputIdle

NextDisk == DiskCollect \/ DiskRecv

SpecDisk == InitDisk /\ [][NextDisk]_vars

InitStat ==
    /\ debug_assertions \in BOOLEAN
    /\ NavIdle
    /\ HistIdle
    /\ StatInit
    /\ CalcIdle
    /\ ProcIdle
    /\ CpuIdle
    /\ NetIoIdle
    /\ NetIdle
    /\ MailIdle
    /\ WidgetIdle
    /\ InputIdle
    /\ DiskIdle

NextStat == StatParse \/ StatNext

SpecStat == InitStat /\ [][NextStat]_vars

InitHist ==
    /\ debug_assertions \in BOOLEAN
    /\ NavIdle
    /\ HistInit
    /\ CalcIdle
    /\ ProcIdle
    /\ CpuIdle
    /\ NetIoIdle
    /\ NetIdle
    /\ MailIdle
    /\ WidgetIdle
    /\ InputIdle
    /\ DiskIdle
    /\ StatIdle

NextHist == HistUpdate

SpecHist == InitHist /\ [][NextHist]_vars

InitNav ==
    /\ debug_assertions \in BOOLEAN
    /\ NavInit
    /\ CalcIdle
    /\ ProcIdle
    /\ CpuIdle
    /\ NetIoIdle
    /\ NetIdle
    /\ MailIdle
    /\ WidgetIdle
    /\ InputIdle
    /\ DiskIdle
    /\ StatIdle
    /\ HistIdle

NextNav == NavHandle

SpecNav == InitNav /\ [][NextNav]_vars

(***************************************************************************)
(* Claims                                                                  *)
(***************************************************************************)
\* ---- mailboxes ----
\* C1: when two or more snapshots of one collector are pending at a read, the
\* read returns the latest of them (and the earlier ones are thereby dropped).
C1_ReadSeesLatest ==
    Len(last_read.pending) >= 2 =>
        /\ last_read.got.value = last_read.pending[Len(last_read.pending)]
        /\ chans[last_read.sub] = <<>>

\* the snapshots the main loop keeps over iterations
Kept == {"mem", "disk", "proc", "net"}

ReadStep == RecvMem \/ RecvDisk \/ RecvCpu \/ RecvProcesses \/ RecvNetwork

\* C2: a read of the main loop never waits: wherever the loop stands at a
\* read, the read can be taken, whatever the collectors have or have not
\* sent; it takes the pending snapshot or, when none is pending, leaves the
\* held memory, disk, network and process snapshots (and the previous
\* network snapshot) as they were.
C2_ReadsNeverBlock ==
    /\ [](loop_pc \in Subsystems => ENABLED ReadStep)
    /\ [][ReadStep =>
            /\ \A s \in Kept \ {loop_pc} : held'[s] = held[s]
            /\ loop_pc \in Kept =>
                  IF chans[loop_pc] = <<>>
                  THEN /\ held'[loop_pc] = held[loop_pc]
                       /\ last_network_info' = last_network_info
                       /\ chans' = chans
                  ELSE /\ held'[loop_pc] = Head(chans[loop_pc])
                       /\ chans'[loop_pc] = Tail(chans[loop_pc])]_vars

\* a read found nothing while a snapshot taken earlier was held
C2_Witness ==
    /\ last_read.sub \in Kept
    /\ ~last_read.got.ok
    /\ held[last_read.sub] # NoSnapshot

\* ---- what the claims compare the code with: the deltas as plain integers ----
PlainTotal(row) ==
    LET f == TimeFields(row)
    IN  WAdd(f[1], WAdd(f[2], WAdd(f[3], WAdd(f[4], WAdd(f[5], WAdd(f[6], f[7]))))))

PlainTotalDelta == WSub(PlainTotal(calc_current), PlainTotal(calc_previous))

PlainIdleDelta == WSub(calc_current.idle, calc_previous.idle)

WPositive(x) == x.hi > 0 \/ (x.hi = 0 /\ x.lo > 0)

\* C3: for two consecutive samples with total delta > 0 the utilization is
\* 100 * (1 - idle_delta / total_delta), the deltas being those of the counters;
\* for the documented example it is 40.
C3_Formula ==
    (calc_out # NotComputed /\ WPositive(PlainTotalDelta)) =>
        /\ calc_out.kind = "finite"
        /\ WMul(calc_out.num, PlainTotalDelta)
             = WMul(WScale(100, WSub(PlainTotalDelta, PlainIdleDelta)), calc_out.den)
        /\ (calc_previous = ExamplePrevious /\ calc_current = ExampleCurrent)
             => calc_out.num = WScale(40, calc_out.den)

\* C4: two identical consecutive samples give utilization exactly 0, no error.
C4_IdenticalIsZero ==
    (calc_out # NotComputed /\ calc_previous = calc_current) =>
        (calc_out.kind = "finite" /\ calc_out.num = WZero)

\* some counter of the current sample is smaller than in the previous sample
CounterReset ==
    \E k \in 1..7 :
        LET d == WSub(TimeFields(calc_current)[k], TimeFields(calc_previous)[k])
        IN  d.hi < 0 \/ (d.hi = 0 /\ d.lo < 0)

\* C5: for any pair of consecutive samples, also one in which a counter of the
\* current sample is smaller than in the previous sample (a counter reset), the
\* computation neither panics (unsigned subtraction underflow) nor yields an
\* undefined value (NaN, infinity).  Stated on the pairs with a reset.
C5_ResetNeverPanicsNorUndefined ==
    (calc_out # NotComputed /\ CounterReset) => calc_out.kind = "finite"


\* ---- per-thread CPU usage ----
\* clock ticks per second the code assumes ("Linux ticks (default: 100/s)")
HZ == 100

\* the deltas of a record against the map entry its usage was computed from
TickDelta(p) == p.cpu_time - p.prior.exec_time

MillisDelta(p) == p.at - p.prior.millis

RECURSIVE GCD(_, _)
GCD(a, b) == IF b = 0 THEN a ELSE GCD(b, a % b)

\* the fraction n / d (n >= 0, d > 0) in lowest terms
Lowest(n, d) == LET g == GCD(n, d) IN <<n \div g, d \div g>>

\* the f32 value v is the fraction n / d
IsFraction(v, n, d) ==
    /\ v.kind = "finite"
    /\ v.num.hi = 0 /\ v.den.hi = 0
    /\ v.num.lo >= 0 /\ v.den.lo > 0
    /\ Lowest(v.num.lo, v.den.lo) = Lowest(n, d)

\* C6: for a tid observed in two enumeration cycles,
\* cpu_percent = 100 * (tick_delta / HZ) / seconds since the tid was last
\* observed; 50 more ticks 1.0 s after the last observation give 50.
C6_PerThreadShare ==
    /\ \A i \in 1..Len(processes) :
          LET p == processes[i]
          IN  (p.prior.present /\ TickDelta(p) >= 0 /\ MillisDelta(p) > 0) =>
                  IsFraction(p.cpu_usage, 100 * TickDelta(p) * 1000, HZ * MillisDelta(p))
    /\ IsFraction(update_cpu_usage(150, CPUTime(100, 4000), 5000, debug_assertions).cpu_usage,
                  50, 1)

\* a thread seen a second time, 125 ticks and 2.5 s later, shown with 50 percent
C6_Witness ==
    \E i \in 1..Len(processes) :
        /\ processes[i].prior.present
        /\ TickDelta(processes[i]) = 125
        /\ MillisDelta(processes[i]) = 2500
        /\ IsFraction(processes[i].cpu_usage, 50, 1)

\* C7: whenever the tick delta or the wall-clock delta against the stored
\* entry of a tid is zero or negative, cpu_percent is 0 and the collector does
\* not crash.
C7_NonPositiveDeltaIsZero ==
    /\ proc_pc \notin {"cpu_time_sub", "millis_sub"}
    /\ \A i \in 1..Len(processes) :
          LET p == processes[i]
          IN  (p.prior.present /\ (TickDelta(p) <= 0 \/ MillisDelta(p) <= 0)) =>
                  (p.cpu_usage.kind = "finite" /\ p.cpu_usage.num = WZero)

\* C8 (thread ids): a record built on the first observation of its tid carries
\* no derived value: cpu_usage keeps its default 0.0.
FirstObservationOfTidEmitsNothing ==
    \A i \in 1..Len(processes) :
        ~processes[i].prior.present =>
            (processes[i].cpu_usage.kind = "finite" /\ processes[i].cpu_usage.num = WZero)


\* ---- CPU collector ----
\* C8 (CPU names): the iteration run as the first one emits no utilization.
FirstIterationEmitsNothing ==
    (cpu_cycles > 0 /\ cpu_ran_first /\ cpu_pc = "running") => cpu_sent = <<>>

\* C8: on the first observation of an identity (a CPU name, or a tid with no
\* history entry) the sample is stored and no derived value is emitted for it.
C8_FirstObservationEmitsNothing ==
    FirstIterationEmitsNothing /\ FirstObservationOfTidEmitsNothing

\* C9 (CPU): a utilization labelled with name N was computed against a previous
\* sample named N, also after a cycle that stopped reading part-way or a change
\* of the set of cpu lines.
CpuPairsHaveOneName ==
    \A i \in 1..Len(cpu_sent) : cpu_sent[i].previous_name = cpu_sent[i].cpu_name

\* C9 (network): a drawn rate is the difference of two samples of one interface.
NetPairsHaveOneInterface ==
    net_drawn.kind = "drawn" => last_info.interface = current_info.interface

\* C9: every derived value is computed from two samples of the same identity:
\* a CPU utilization labelled N from a previous sample named N, a displayed
\* network rate from two samples of one interface.
C9_DerivedFromOneIdentity ==
    CpuPairsHaveOneName /\ NetPairsHaveOneInterface

\* ---- network sampler ----
NonLoopbackRows == {k \in 1..Len(net_file) : net_file[k].interface # "lo"}

\* C10: for every list of interface rows of one cycle the sampler returns the
\* non-loopback interface with the highest rx_bytes, wherever the loopback row
\* stands in the list.
C10_HighestNonLoopback ==
    (net_io_out.done /\ NonLoopbackRows # {}) =>
        /\ net_io_out.info.interface # "lo"
        /\ \A k \in NonLoopbackRows : net_file[k].rec_bytes <= net_io_out.info.rec_bytes
        /\ \/ \E k \in NonLoopbackRows : net_file[k] = net_io_out.info
           \/ /\ net_io_out.info = DefaultNetworkInfo
              /\ \A k \in NonLoopbackRows : net_file[k].rec_bytes = 0

\* ---- process collector: failure to open /proc ----
\* C11: in a cycle in which opening /proc failed the process collector sends
\* nothing: no step taken from the point where update returned early is a
\* tx.send.
C11_FailedOpenPublishesNothing ==
    [][proc_pc = "scanned" => proc_sends' = proc_sends]_vars

\* ---- process table controller ----
KillStep == pw_events' # pw_events /\ pw_last'.key = "k"

\* C12: k pressed while browsing with a row displayed as selected spawns
\* exactly one kill, for the tid of that row (also when a filter hides some
\* rows of the list), and leaves the widget as it was.
C12_KillsSelectedRow ==
    /\ [](pw_last.key = "k" /\ pw_last.selected # <<>> =>
            pw_last.commands = <<Command("kill", pw_last.selected[1].tid, 9)>>)
    /\ [][KillStep => pw' = pw]_vars

\* the buffer is an integer in decimal notation with an optional sign
IsSignedInteger(str) ==
    \/ AllDigits(str)
    \/ str # <<>> /\ Head(str) \in {"-"} /\ AllDigits(Tail(str))

SignedValue(str) ==
    IF Head(str) = "-" THEN -DigitsValue(0, Tail(str)) ELSE DigitsValue(0, str)

NicenessSubmitted ==
    /\ pw_last.key = "Enter" /\ pw_last.mode = "PopupNiceness"
    /\ pw_last.selected # <<>>
    /\ IsSignedInteger(pw_last.input)

BackInBrowsing == pw_pc = "running" /\ ~pw.popup_open /\ pw.input = <<>>

\* C13: Enter in PopupNiceness with a buffer that is an integer of [-20, 19]
\* spawns exactly one renice with that value for the tid of the selected row,
\* and the controller is back in Browsing with an empty buffer.
C13_ReniceInRange ==
    (NicenessSubmitted /\ SignedValue(pw_last.input) \in -20..19) =>
        /\ pw_last.commands =
              <<Command("renice", pw_last.selected[1].tid, SignedValue(pw_last.input))>>
        /\ BackInBrowsing

\* C14: Enter in PopupNiceness with a buffer that is an integer outside
\* [-20, 19] (200, -21) spawns no renice and raises no error; the buffer is
\* cleared and the controller is back in Browsing.
C14_OutOfRangeIgnored ==
    (NicenessSubmitted /\ SignedValue(pw_last.input) \notin -20..19) =>
        /\ pw_last.commands = <<>>
        /\ BackInBrowsing

\* the predicate a filter on column `column` with the submitted text `text`
\* stands for: equality with the integer read from the text (0 when it is
\* none) on the integer columns, containment of the text on the string
\* columns; the CPU column (a float) and position 12 (no column) are left open
FilterPredicate(column, text, p) ==
    CASE column = 0 -> p.pid = parse_usize_or_default(text)
      [] column = 1 -> p.parent_pid = parse_usize_or_default(text)
      [] column = 2 -> p.tid = parse_usize_or_default(text)
      [] column = 5 -> p.threads = parse_usize_or_default(text)
      [] column = 8 -> p.nice = parse_i8_or_default(text)
      [] column = 10 -> p.memory = parse_usize_or_default(text)
      [] column = 3 -> contains(p.user, text)
      [] column = 4 -> contains(p.umask, text)
      [] column = 6 -> contains(p.name, text)
      [] column = 7 -> contains(p.state, text)
      [] column = 11 -> contains(p.command, text)
      [] OTHER -> TRUE

RECURSIVE RowsWhere(_, _, _)
RowsWhere(list, column, text) ==
    IF list = <<>> THEN <<>>
    ELSE (IF FilterPredicate(column, text, Head(list)) THEN <<Head(list)>> ELSE <<>>)
         \o RowsWhere(Tail(list), column, text)

\* C15: while a filter is set, the displayed rows are exactly the records of
\* the held list that satisfy the filter's predicate for its column and
\* submitted value; the records not displayed are exactly those that fail it.
C15_FilterPartitions ==
    pw.filter_index # NoFilter =>
        Displayed(pw) = RowsWhere(pw.process_list, pw.filter_index[1], pw_filter_input)

\* the partition on the columns ProcessesWidget::filter has a case for
C15_OnHandledColumns ==
    (pw.filter_index # NoFilter /\ pw.filter_index[1] \in {0, 1, 2, 3, 4, 5, 6, 7, 11}) =>
        Displayed(pw) = RowsWhere(pw.process_list, pw.filter_index[1], pw_filter_input)

NumericColumns == {0, 1, 2, 5, 8, 9, 10}

\* a <= b on f32: false when either side is NaN
FloatLeq(a, b) ==
    /\ a.kind # "nan" /\ b.kind # "nan"
    /\ FloatCmpOrEqual(a, b) # "Greater"

\* row a may stand directly before row b under an ascending sort on `column`
InOrder(column, a, b) ==
    CASE column = 0 -> a.pid <= b.pid
      [] column = 1 -> a.parent_pid <= b.parent_pid
      [] column = 2 -> a.tid <= b.tid
      [] column = 5 -> a.threads <= b.threads
      [] column = 8 -> a.nice <= b.nice
      [] column = 9 -> FloatLeq(a.cpu_usage, b.cpu_usage)
      [] column = 10 -> a.memory <= b.memory

Sorted(rows, column, descending) ==
    \A k \in 1..(Len(rows) - 1) :
        IF descending THEN InOrder(column, rows[k + 1], rows[k])
        ELSE InOrder(column, rows[k], rows[k + 1])

\* C16: whenever the active sort is a numeric column, adjacent displayed rows
\* are in order: field <= next field ascending, >= descending.
C16_DisplayedSorted ==
    pw.sort_index \in NumericColumns =>
        Sorted(Displayed(pw), pw.sort_index, pw.sort_descending)

\* the same on the numeric columns other than the CPU column
C16_OnIntegerColumns ==
    pw.sort_index \in NumericColumns \ {9} =>
        Sorted(Displayed(pw), pw.sort_index, pw.sort_descending)

\* C17: a kill or renice that fails at the level of the operating system (the
\* command ran and failed, or could not be run at all) does not end the
\* thread that handles the input.
C17_FailureIsSwallowed ==
    pw_last.result \in {"failed", "not_spawned"} => pw_pc = "running"

\* ---- input thread ----
\* C18: any two key events the input thread delivers were read more than
\* 150 ms apart, and an event read inside the window is dropped: it is never
\* sent and never returned by InputHandler::next.
C18_OnePerWindow ==
    /\ \A j, k \in 1..Len(in_sent) : j < k => in_sent[k].at - in_sent[j].at > INTERVAL
    /\ \A e \in in_dropped :
          /\ \A k \in 1..Len(key_chan) : key_chan[k] # e
          /\ \A k \in 1..Len(in_received) : in_received[k] # e
    /\ \A k \in 1..Len(in_received) : \E j \in 1..Len(in_sent) : in_sent[j] = in_received[k]

\* two events were delivered, 151 ms apart, and one read between them was
\* dropped
C18_Witness ==
    /\ Len(in_received) >= 2
    /\ in_received[2].at - in_received[1].at = INTERVAL + 1
    /\ \E e \in in_dropped : in_received[1].at < e.at /\ e.at <= in_received[2].at

\* ---- mailboxes: backlog, failed samples ----
\* C19: each channel holds at most one snapshot that has not been read,
\* however long the main loop goes without reading.
C19_AtMostOnePending ==
    \A s \in Subsystems : Len(chans[s]) <= 1

\* C20: an iteration of a collector whose sample failed sends nothing: the
\* channel is left as it was.
C20_FailedSampleSendsNothing ==
    [][(net_cycles' # net_cycles /\ net_failed') => net_chan' = net_chan]_vars

\* ---- collector loops ----
\* C21: a collector loop runs forever: after an iteration whose sample failed
\* (here: df could not be run, or its output could not be decoded) the disk
\* collector is still running and goes on to its next iteration.
C21_CollectorSurvivesFailure ==
    [][(disk_cycles' # disk_cycles /\ disk_df'.kind # "output") => disk_pc' = "running"]_vars

\* ---- process enumeration ----
CollectorAlive == proc_pc \in {"idle", "scanning", "scanned"}

\* C22: a thread whose files could not be read or parsed in this cycle is
\* absent from the list, every other thread enumerated is in it, and the
\* collector has not crashed.
C22_FailedThreadSkipped ==
    /\ CollectorAlive
    /\ \A k \in 1..Len(proc_seen) :
          Listed(proc_seen[k].tid) <=> proc_seen[k].fate = "alive"

\* C23: as long as the collector runs, the list holds exactly one record per
\* (pid, tid) pair enumerated in the current cycle, in the order of
\* enumeration, and nothing else; at the start of a cycle it is empty.
C23_RebuiltEveryCycle ==
    CollectorAlive =>
        /\ Len(processes) = Len(proc_seen)
        /\ \A k \in 1..Len(processes) :
              /\ processes[k].pid = proc_seen[k].pid
              /\ processes[k].tid = proc_seen[k].tid
        /\ \A j, k \in 1..Len(processes) : processes[j].tid = processes[k].tid => j = k

\* a second cycle has enumerated fewer threads than the cycle before
\* published, and is published itself
C23_Witness ==
    /\ proc_cycles = 2
    /\ proc_pc = "idle"
    /\ Len(proc_sent) = 1
    /\ Len(processes) = 1
    /\ \E t \in Tids : cpu_times[t].present /\ ~Listed(t)

\* the step pushed a record: one more row in the same cycle
Pushed == proc_cycles' = proc_cycles /\ Len(processes') = Len(processes) + 1

\* C24: an entry of the CPU history map is never removed, and an observation
\* of a tid replaces its entry with the ticks of the record and the clock of
\* the observation.
C24_HistoryOnlyGrows ==
    [][/\ \A t \in Tids : cpu_times[t].present => cpu_times'[t].present
       /\ Pushed =>
             LET r == processes'[Len(processes')]
             IN  cpu_times'[r.tid] = CPUTime(r.cpu_time, millis)]_vars

\* a tid observed in two cycles has had its entry replaced, and a tid seen
\* in the first cycle only has kept its entry
C24_Witness ==
    /\ proc_cycles = 2
    /\ \E t, u \in Tids :
          /\ Listed(t) /\ cpu_times[t] = CPUTime(175, StartMillis + DUR)
          /\ ~Enumerated(u) /\ cpu_times[u].present /\ cpu_times[u].millis = StartMillis

\* ---- stat parser ----
\* C25: whatever the command name, also one that contains ") ", update_stat
\* parses state, parent pid, nice, thread count and cpu ticks as it parses
\* them from the same record with a plain command name.
C25_SplitsAtLastSeparator ==
    stat_out # NotParsed => stat_out = update_stat(StatLine(PlainComm, stat_fields))

\* the same for the command names that do not contain ") "
C25_OnNamesWithoutSeparator ==
    (stat_out # NotParsed /\ ~contains(stat_comm, <<")", " ">>))
        => stat_out = update_stat(StatLine(PlainComm, stat_fields))

\* ---- keys of the process table ----
\* the step changes the sort column or the sort direction
SortChanged ==
    pw'.sort_index # pw.sort_index \/ pw'.sort_descending # pw.sort_descending

\* the list has no two adjacent rows which the comparator of the active sort
\* puts the other way round
Resorted(w) ==
    \A k \in 1..(Len(w.process_list) - 1) :
        SortCmp(w.sort_index, w.sort_descending,
                w.process_list[k], w.process_list[k + 1]) # "Greater"

\* C26: in Browsing the key s makes the focused column the sort column,
\* inverts the direction exactly when the focused column was the sort column
\* already, and sorts the list by the new column and direction within the same
\* step; the sort column and direction change on no other step.
C26_SortKey ==
    /\ [](Mode(pw) = "Browsing" =>
            \A o \in handle_input(pw, "s", debug_assertions) :
                /\ o.panic = "none" /\ o.commands = <<>>
                /\ o.widget.sort_index = pw.column_index
                /\ o.widget.sort_descending =
                      ((pw.sort_index = pw.column_index) # pw.sort_descending)
                /\ o.widget.process_list
                      \in sort(pw.process_list, pw.column_index, o.widget.sort_descending)
                /\ ConsistentOn(pw.process_list, pw.column_index) => Resorted(o.widget))
    /\ [][SortChanged =>
            /\ Mode(pw) = "Browsing" /\ Mode(pw') = "Browsing"
            /\ pw'.sort_index = pw.column_index
            /\ pw'.sort_descending = ((pw.sort_index = pw.column_index) # pw.sort_descending)
            /\ pw'.process_list
                  \in sort(pw.process_list, pw'.sort_index, pw'.sort_descending)]_vars

\* s was pressed on the Nice column (direction kept) and once more (direction
\* inverted), and the two rows held stand in ascending order of nice
C26_Witness ==
    /\ Mode(pw) = "Browsing"
    /\ pw.sort_index = 8 /\ ~pw.sort_descending
    /\ Len(pw.process_list) = 2
    /\ pw.process_list[1].nice < pw.process_list[2].nice

\* C27: the controller starts in Browsing; in Browsing f leads to PopupFilter
\* and n to PopupNiceness; the input buffer is empty in every Browsing state
\* and therefore on entry to either popup.
C27_PopupsOpenEmpty ==
    /\ pw_events = 0 => Mode(pw) = "Browsing"
    /\ Mode(pw) = "Browsing" =>
          /\ pw.input = <<>>
          /\ \A o \in handle_input(pw, "f", debug_assertions) :
                o.panic = "none" /\ Mode(o.widget) = "PopupFilter" /\ o.widget.input = <<>>
          /\ \A o \in handle_input(pw, "n", debug_assertions) :
                o.panic = "none" /\ Mode(o.widget) = "PopupNiceness" /\ o.widget.input = <<>>

\* a popup has been used before (a filter was submitted with a buffer that
\* was not empty) and the niceness popup has just been opened
C27_Witness ==
    /\ pw_filter_input # <<>>
    /\ Mode(pw) = "PopupNiceness"
    /\ pw.input = <<>>

\* C28: in Browsing the key r removes the active filter, so that every row of
\* the list held is displayed, and changes nothing else: the controller stays
\* in Browsing, and selection, focused column, sort column and direction are
\* as before.
C28_RemoveFilter ==
    Mode(pw) = "Browsing" =>
        \A o \in handle_input(pw, "r", debug_assertions) :
            /\ o.panic = "none" /\ o.commands = <<>>
            /\ Displayed(o.widget) = pw.process_list
            /\ Mode(o.widget) = "Browsing"
            /\ o.widget.item_index = pw.item_index
            /\ o.widget.column_index = pw.column_index
            /\ o.widget.sort_index = pw.sort_index
            /\ o.widget.sort_descending = pw.sort_descending
            /\ o.widget.process_list = pw.process_list

\* a filter has been submitted and removed again while the second row was
\* selected
C28_Witness ==
    /\ Mode(pw) = "Browsing"
    /\ pw_filter_input = <<"-">>
    /\ pw.filter_index = NoFilter
    /\ pw.item_index = 1
    /\ Len(pw.process_list) = 2

\* C29: in a popup a character key other than Enter and c appends the
\* character to the input buffer, whatever the length of the buffer.
C29_CharactersAppend ==
    Mode(pw) # "Browsing" =>
        \A ch \in Chars : \A o \in handle_input(pw, ch, debug_assertions) :
            o.widget.input = Append(pw.input, ch)

\* the same in PopupFilter, and in PopupNiceness below three characters
C29_UpToThreeInNiceness ==
    (Mode(pw) = "PopupFilter" \/ (Mode(pw) = "PopupNiceness" /\ Len(pw.input) < 3)) =>
        \A ch \in Chars : \A o \in handle_input(pw, ch, debug_assertions) :
            o.widget.input = Append(pw.input, ch)

\* what a cancelled popup must leave alone
CancelKeeps(w) ==
    <<w.filter_index, w.filter_value_str, w.filter_value_usize, w.sort_index,
      w.sort_descending, w.item_index, w.column_index, w.process_list>>

\* C30: in a popup the keys Esc and c empty the buffer and lead back to
\* Browsing, dispatch no command and change nothing else; and since no step
\* taken while the popup is open other than Enter changes filter, sort column,
\* direction, selection or focused column, these are as they were when the
\* popup was opened.
C30_CancelWithoutEffect ==
    /\ [](Mode(pw) # "Browsing" =>
            \A key \in {"c", "Esc"} : \A o \in handle_input(pw, key, debug_assertions) :
                /\ o.panic = "none" /\ o.commands = <<>>
                /\ Mode(o.widget) = "Browsing"
                /\ o.widget.input = <<>>
                /\ CancelKeeps(o.widget) = CancelKeeps(pw))
    /\ [][(Mode(pw) # "Browsing" /\ pw_last'.key # "Enter") =>
            CancelKeeps(pw') = CancelKeeps(pw) /\ pw_last'.commands = <<>>]_vars

\* after four steps a list is held, its second row is selected and the
\* filter popup has been opened and closed without a filter being set: the
\* popup was cancelled
C30_Witness ==
    /\ pw_events = 4
    /\ Mode(pw) = "Browsing"
    /\ pw.input_mode = "Filter"
    /\ pw.filter_index = NoFilter
    /\ pw.item_index = 1
    /\ Len(pw.process_list) = 2

\* ---- filter ----
\* Enter pressed in the filter popup of widget w gives outcome o: the
\* controller is back in Browsing, the filter is on the focused column and
\* the rows displayed are those the buffer selects on that column
FilterSubmitted(w, o) ==
    /\ o.panic = "none" /\ o.commands = <<>>
    /\ Mode(o.widget) = "Browsing"
    /\ o.widget.input = <<>>
    /\ o.widget.filter_index = <<w.column_index>>
    /\ Displayed(o.widget) = RowsWhere(w.process_list, w.column_index, w.input)

\* C31: Enter in PopupFilter makes the buffer the one active filter, on the
\* focused column, whatever filter was active before: integer equality on a
\* numeric column (0 when the buffer is no number), substring containment on
\* a string column; the controller returns to Browsing.
C31_EnterSetsFilter ==
    Mode(pw) = "PopupFilter" =>
        \A o \in handle_input(pw, "Enter", debug_assertions) : FilterSubmitted(pw, o)

\* the same with the focus on one of the columns PID, PPID, TID, User, Umask,
\* Threads, Name, State and CMD
C31_OnHandledColumns ==
    (Mode(pw) = "PopupFilter" /\ pw.column_index \in {0, 1, 2, 3, 4, 5, 6, 7, 11}) =>
        \A o \in handle_input(pw, "Enter", debug_assertions) : FilterSubmitted(pw, o)

\* C32: setting a filter, replacing it and clearing it leave the list held as
\* it is, record for record.
C32_FilterKeepsSnapshot ==
    /\ Mode(pw) = "PopupFilter" =>
          \A o \in handle_input(pw, "Enter", debug_assertions) :
              o.widget.process_list = pw.process_list
    /\ Mode(pw) = "Browsing" =>
          \A o \in handle_input(pw, "r", debug_assertions) :
              o.widget.process_list = pw.process_list

\* a filter on CMD hides one of the two rows held
C32_Witness ==
    /\ Mode(pw) = "Browsing"
    /\ pw.filter_index = <<11>>
    /\ Len(pw.process_list) = 2
    /\ Len(Displayed(pw)) = 1

\* ---- selection and focus ----
\* C33: the selected row index is an index of the list held whenever the list
\* is not empty, and no key has ended the widget by indexing outside the list
\* or by subtracting from a length of 0.
C33_SelectionValid ==
    /\ pw.process_list # <<>> => pw.item_index < Len(pw.process_list)
    /\ pw_pc \notin {"index_out_of_bounds", "subtract_overflow"}

\* C34: the focused column is one of the twelve columns of the table, 0 to 11.
C34_FocusOnExistingColumn == pw.column_index \in 0..11

\* ---- popups ----
\* no step taken while a popup is open changes the list held or the selection
PopupHoldsList ==
    [][Mode(pw) # "Browsing" =>
          pw'.process_list = pw.process_list /\ pw'.item_index = pw.item_index]_vars

\* C35: while a popup is open the list held and the selection stay as they
\* are, whatever arrives from the collector, and the renice that Enter
\* dispatches goes to the tid of the row that is selected, which is the row
\* that was selected when the popup was opened.
C35_ReniceHitsSelectedRow ==
    /\ PopupHoldsList
    /\ [](Mode(pw) = "PopupNiceness" =>
            \A o \in handle_input(pw, "Enter", debug_assertions) :
                o.commands # <<>> =>
                    /\ SelectedRow(pw) # <<>>
                    /\ o.commands[1].tid = SelectedRow(pw)[1].tid)

\* C36: with a popup open no key other than Enter changes the selected row,
\* the focused column, the sort column or the direction, and none dispatches
\* a command: the arrow keys change nothing at all and the characters s, f,
\* r, k and n go to the buffer like any other character.
C36_PopupTakesKeysAsInput ==
    Mode(pw) # "Browsing" =>
        /\ \A key \in {"Up", "Down", "Left", "Right"} :
           \A o \in handle_input(pw, key, debug_assertions) :
               o.panic = "none" /\ o.commands = <<>> /\ o.widget = pw
        /\ \A key \in {"s", "f", "r", "k", "n"} :
           \A o \in handle_input(pw, key, debug_assertions) :
               /\ o.panic = "none" /\ o.commands = <<>>
               /\ o.widget \in {pw, [pw EXCEPT !.input = Append(@, key)]}
               /\ (Mode(pw) = "PopupFilter" \/ Len(pw.input) < 3)
                     => o.widget.input = Append(pw.input, key)

\* four steps: a list of two rows is held, its second row selected, a popup
\* opened and one more key or snapshot handled in it that left the buffer empty
C36_Witness ==
    /\ pw_events = 4
    /\ Mode(pw) = "PopupNiceness"
    /\ pw.input = <<>>
    /\ pw.item_index = 1
    /\ Len(pw.process_list) = 2

\* ---- CPU collector ----
\* the collector has just completed two iterations that each read
\* /proc/stat to its end
TwoCompleteReads ==
    cpu_pc = "running" /\ cpu_reads[1].complete /\ cpu_reads[2].complete

\* C37: after two consecutive iterations that read /proc/stat to its end the
\* collector has published one utilization for every cpu name of the file,
\* whatever happened in the iterations before.
C37_PublishesAfterTwoReads ==
    TwoCompleteReads =>
        /\ Len(cpu_sent) = Len(cpu_reads[2].names)
        /\ \A k \in 1..Len(cpu_sent) : cpu_sent[k].cpu_name = cpu_reads[2].names[k]

\* the same when the first iteration of all did not fail to open the file
\* and read at least one cpu line
C37_AfterAFirstRow ==
    (TwoCompleteReads /\ stats # <<>>) =>
        /\ Len(cpu_sent) = Len(cpu_reads[2].names)
        /\ \A k \in 1..Len(cpu_sent) : cpu_sent[k].cpu_name = cpu_reads[2].names[k]

\* ---- network widget ----
\* C38: whenever draw has computed the two differences, neither subtracts a
\* larger counter from a smaller one: last rx <= current rx and last tx <=
\* current tx.
C38_NoNegativeDifference ==
    net_drawn.kind \in {"drawn", "panic"} =>
        /\ last_info.rec_bytes <= current_info.rec_bytes
        /\ last_info.send_bytes <= current_info.send_bytes

\* the same for the received bytes alone, which draw compares before it
\* subtracts
C38_ReceivedDifference ==
    net_drawn.kind \in {"drawn", "panic"} => last_info.rec_bytes <= current_info.rec_bytes

\* ---- CPU history ----
\* the last n values of s
LastValues(s, n) == IF Len(s) <= n THEN s ELSE SubSeq(s, Len(s) - n + 1, Len(s))

\* C39: the aggregate history and every per-core history hold at most 300
\* values, and each is the last (at most 300) values that arrived for it, in
\* arrival order: at the threshold the oldest value is the one dropped.
C39_HistoryBounded ==
    /\ Len(cpu_values) <= HISTORY
    /\ cpu_values = LastValues(hist_arrived.cpu, HISTORY)
    /\ Len(core_values) = Len(hist_arrived.cores)
    /\ \A k \in 1..Len(core_values) :
         /\ Len(core_values[k]) <= HISTORY
         /\ core_values[k] = LastValues(hist_arrived.cores[k], HISTORY)

\* both the aggregate history and a core history have dropped values: each is
\* full and more than 300 values have arrived for it
C39_Witness ==
    /\ Len(cpu_values) = HISTORY /\ Len(hist_arrived.cpu) > HISTORY
    /\ cpu_values[HISTORY] \in Utils
    /\ \E k \in 1..Len(core_values) :
         Len(core_values[k]) = HISTORY /\ Len(hist_arrived.cores[k]) > HISTORY

\* ---- navigation ----
\* what the iteration that handled nav_event' did to the widget, the state
\* and the loop
NavStep ==
    LET id == get_value(current_widget)
        id2 == get_value(current_widget')
    IN  /\ id2 = IF app_state = "Navigation" /\ nav_event' = "Right" /\ id < 4 THEN id + 1
                 ELSE IF app_state = "Navigation" /\ nav_event' = "Left" /\ id > 0 THEN id - 1
                 ELSE id
        /\ (nav_event' = "Esc") => app_state' # app_state
        /\ (nav_event' # "Esc") => app_state' = app_state
        /\ nav_running' = (nav_event' # "Ctrl-c")

\* C40: the current widget is always one of the five widgets (id 0 to 4) and
\* the state Navigation or Interaction; Left and Right move the widget by one
\* in Navigation only, not below id 0 nor above id 4; Esc changes Navigation
\* to Interaction and back; Ctrl-c ends the loop in either state, and nothing
\* else does.
C40_Navigation ==
    /\ [](/\ current_widget \in {data_widgets[k] : k \in 1..Len(data_widgets)}
          /\ get_value(current_widget) \in 0..4
          /\ app_state \in {"Navigation", "Interaction"})
    /\ [][NavStep]_vars

\* Right was pressed on the last widget in Navigation, and the widget stayed
C40_Witness ==
    /\ nav_event = "Right" /\ nav_count = 6
    /\ app_state = "Navigation" /\ current_widget = "Processes" /\ nav_running

====
